---- MODULE Spec2Model ----
(***************************************************************************)
(* The collaborative-editing core of xi-editor: Subset arithmetic over a   *)
(* union string, the Delta algebra (rust/rope/src/delta.rs) and the        *)
(* revision Engine (rust/rope/src/engine.rs).                              *)
(*                                                                         *)
(* A Rope is a sequence of characters (naturals).  A Subset is the set of  *)
(* positions of the union string it marks as deleted.  A Delta is a record *)
(* [els, base_len] whose elements are Copy(b, e) or Insert(n).             *)
(***************************************************************************)
EXTENDS Integers, Sequences, FiniteSets, TLC

Min(a, b) == IF a < b THEN a ELSE b

(***************************************************************************)
(* Subset (rust/rope/src/subset.rs, not part of the sources at hand; the   *)
(* operations follow their description and the way delta.rs and engine.rs  *)
(* call them).                                                             *)
(***************************************************************************)
Subset_default == {}

is_empty(s) == s = {}

\* SubsetBuilder::add_range(beg, end): the positions beg .. end-1 are deleted
add_range(sb, beg, end) == sb \cup (beg .. (end - 1))

len_after_delete(s, union_len) == union_len - Cardinality(s)

complement(s, union_len) == (0 .. (union_len - 1)) \ s

union(a, b) == a \cup b

\* the number of positions below i that s does not hold
KeptBelow(s, i) == Cardinality((0 .. (i - 1)) \ s)

\* the position, in the larger universe, of the i-th position outside inserts
NthKept(inserts, i) ==
    CHOOSE j \in 0 .. (i + Cardinality(inserts)) :
        j \notin inserts /\ KeptBelow(inserts, j) = i

\* lift s into the universe that also holds inserts; the new positions are kept
Subset_transform_expand(s, inserts) == { NthKept(inserts, i) : i \in s }

\* as transform_expand, but the new positions are deleted
transform_union(s, inserts) == Subset_transform_expand(s, inserts) \cup inserts

\* Subset::transform_shrink(&self, other): the receiver is the coordinate
\* transform and other is the subset carried through it, the reverse of
\* InsertDelta::transform_shrink (delta.rs:333-334).  The result is other with
\* the positions of s removed from its universe.
Subset_transform_shrink(s, other) == { KeptBelow(s, i) : i \in other \ s }

\* the kept ranges <<b, e>> of [from, union_len), in order
RECURSIVE RangesFrom(_, _, _)
RangesFrom(s, union_len, from) ==
    IF from >= union_len THEN <<>>
    ELSE IF from \in s THEN RangesFrom(s, union_len, from + 1)
    ELSE LET e == CHOOSE e \in (from + 1) .. union_len :
                      /\ \A k \in from .. (e - 1) : k \notin s
                      /\ (e = union_len \/ e \in s)
         IN  <<<<from, e>>>> \o RangesFrom(s, union_len, e)

complement_iter(s, union_len) == RangesFrom(s, union_len, 0)

\* Mapper::doc_index_to_subset: the index, among the positions of s, of
\* document position i (the number of positions of s below i)
doc_index_to_subset(s, i) == Cardinality({ k \in s : k < i })

\* the characters of seq at the positions s does not hold
RECURSIVE DeleteFromAt(_, _, _)
DeleteFromAt(s, seq, i) ==
    IF i > Len(seq) THEN <<>>
    ELSE (IF (i - 1) \in s THEN <<>> ELSE <<seq[i]>>) \o DeleteFromAt(s, seq, i + 1)

delete_from(s, seq) == DeleteFromAt(s, seq, 1)

(***************************************************************************)
(* Delta                                                                   *)
(***************************************************************************)
Copy(b, e) == [t |-> "Copy", b |-> b, e |-> e, n |-> <<>>]

Insert(n) == [t |-> "Insert", b |-> 0, e |-> 0, n |-> n]

\* Node::subseq / push_subseq over the half-open interval [b, e), cut to the rope
subseq(rope, b, e) == SubSeq(rope, b + 1, Min(e, Len(rope)))

RECURSIVE ApplyFrom(_, _, _)
ApplyFrom(els, base, i) ==
    IF i > Len(els) THEN <<>>
    ELSE (IF els[i].t = "Copy" THEN subseq(base, els[i].b, els[i].e) ELSE els[i].n)
         \o ApplyFrom(els, base, i + 1)

apply(d, base) == ApplyFrom(d.els, base, 1)

RECURSIVE FactorLoop(_, _, _, _, _, _)
FactorLoop(els, i, ins, sb, b1, e1) ==
    IF i > Len(els) THEN [ins |-> ins, sb |-> sb, b1 |-> b1, e1 |-> e1]
    ELSE IF els[i].t = "Copy"
         THEN FactorLoop(els, i + 1, ins, add_range(sb, e1, els[i].b), b1, els[i].e)
         ELSE FactorLoop(els, i + 1,
                         (IF e1 > b1 THEN Append(ins, Copy(b1, e1)) ELSE ins) \o <<els[i]>>,
                         sb, e1, e1)

\* factor without the range of the base behind the last Copy
factor_without_last_range(d) ==
    LET r == FactorLoop(d.els, 1, <<>>, {}, 0, 0)
        ins == IF r.b1 < d.base_len THEN Append(r.ins, Copy(r.b1, d.base_len)) ELSE r.ins
    IN  [ins |-> [els |-> ins, base_len |-> d.base_len], dels |-> r.sb]

\* [ins |-> the insert-only delta, dels |-> the deletions from the base]
factor(d) ==
    LET r == FactorLoop(d.els, 1, <<>>, {}, 0, 0)
        ins == IF r.b1 < d.base_len THEN Append(r.ins, Copy(r.b1, d.base_len)) ELSE r.ins
    IN  [ins |-> [els |-> ins, base_len |-> d.base_len],
         dels |-> add_range(r.sb, r.e1, d.base_len)]

RECURSIVE total_element_len(_)
total_element_len(els) ==
    IF els = <<>> THEN 0
    ELSE (IF Head(els).t = "Copy" THEN Head(els).e - Head(els).b ELSE Len(Head(els).n))
         + total_element_len(Tail(els))

\* Delta::summary: what the leading Copy(0, end) leaves, [iv_start, els]
SummaryFront(els) ==
    IF Len(els) > 0 /\ els[1].t = "Copy" /\ els[1].b = 0
    THEN [iv_start |-> els[1].e, els |-> Tail(els)]
    ELSE [iv_start |-> 0, els |-> els]

\* what the trailing Copy(beg, base_len) leaves, [iv_end, els]
SummaryBack(els, base_len) ==
    IF Len(els) > 0 /\ els[Len(els)].t = "Copy" /\ els[Len(els)].e = base_len
    THEN [iv_end |-> els[Len(els)].b, els |-> SubSeq(els, 1, Len(els) - 1)]
    ELSE [iv_end |-> base_len, els |-> els]

\* summary taking any leading Copy for unchanged text
summary_any_leading_copy(d) ==
    LET f == IF Len(d.els) > 0 /\ d.els[1].t = "Copy"
             THEN [iv_start |-> d.els[1].e, els |-> Tail(d.els)]
             ELSE [iv_start |-> 0, els |-> d.els]
        b == SummaryBack(f.els, d.base_len)
    IN  [iv |-> <<f.iv_start, b.iv_end>>, new_len |-> total_element_len(b.els)]

\* [iv |-> the interval <<iv_start, iv_end>>, new_len |-> the length of its new contents]
summary(d) ==
    LET f == SummaryFront(d.els)
        b == SummaryBack(f.els, d.base_len)
    IN  [iv |-> <<f.iv_start, b.iv_end>>, new_len |-> total_element_len(b.els)]

\* the length of the document the delta is applied to
new_document_len_of_base(d) == d.base_len

new_document_len(d) == total_element_len(d.els)

RECURSIVE InsertedLoop(_, _, _, _)
InsertedLoop(els, i, x, sb) ==
    IF i > Len(els) THEN sb
    ELSE IF els[i].t = "Copy"
         THEN InsertedLoop(els, i + 1, x + (els[i].e - els[i].b), sb)
         ELSE InsertedLoop(els, i + 1, x + Len(els[i].n), add_range(sb, x, x + Len(els[i].n)))

\* the inserted ranges placed in the coordinates of the base, not of the result
RECURSIVE InsertedLoopInBase(_, _, _, _)
InsertedLoopInBase(els, i, x, sb) ==
    IF i > Len(els) THEN sb
    ELSE IF els[i].t = "Copy"
         THEN InsertedLoopInBase(els, i + 1, x + (els[i].e - els[i].b), sb)
         ELSE InsertedLoopInBase(els, i + 1, x, add_range(sb, x, x + Len(els[i].n)))

inserted_subset_in_base(d) == InsertedLoopInBase(d.els, 1, 0, {})

inserted_subset(d) == InsertedLoop(d.els, 1, 0, {})

(***************************************************************************)
(* Delta::synthesize.  st = [els, x, k, beg]: the elements emitted so far, *)
(* the coordinate in the old text of the start of old range k, the index   *)
(* of last_old in old (past the end: None) and the fill position.          *)
(***************************************************************************)
\* skip over ranges in the old text until one ends after beg
RECURSIVE SkipOld(_, _, _, _)
SkipOld(old, k, x, beg) ==
    IF k <= Len(old) /\ ~(old[k][2] > beg)
    THEN SkipOld(old, k + 1, x + (old[k][2] - old[k][1]), beg)
    ELSE [k |-> k, x |-> x]

\* a variant that pushes every Copy as an element of its own
PushCopy_unmerged(els, xbeg, xend) == Append(els, Copy(xbeg, xend))

\* push Copy(xbeg, xend), merged into a preceding Copy that ends at xbeg
PushCopy(els, xbeg, xend) ==
    IF Len(els) > 0 /\ els[Len(els)].t = "Copy" /\ els[Len(els)].e = xbeg
    THEN [els EXCEPT ![Len(els)].e = xend]
    ELSE Append(els, Copy(xbeg, xend))

\* fill the segment [st.beg, e) of the new text
RECURSIVE FillSegment(_, _, _, _, _)
FillSegment(old, tombstones, tombstone_dels, e, st) ==
    IF ~(st.beg < e) THEN st
    ELSE LET sk == SkipOld(old, st.k, st.x, st.beg)
             k == sk.k
             x == sk.x
         IN  IF k <= Len(old) /\ old[k][1] <= st.beg
             THEN LET ib == old[k][1]
                      ie == old[k][2]
                      end == Min(e, ie)
                      xbeg == st.beg + x - ib
                      xend == end + x - ib
                  IN  FillSegment(old, tombstones, tombstone_dels, e,
                          [els |-> PushCopy(st.els, xbeg, xend), x |-> x, k |-> k, beg |-> end])
             ELSE LET end == IF k <= Len(old) THEN Min(e, old[k][1]) ELSE e
                      n == subseq(tombstones, doc_index_to_subset(tombstone_dels, st.beg),
                                  doc_index_to_subset(tombstone_dels, end))
                  IN  FillSegment(old, tombstones, tombstone_dels, e,
                          [els |-> Append(st.els, Insert(n)), x |-> x, k |-> k, beg |-> end])

\* for each segment of the new text
RECURSIVE SynthesizeLoop(_, _, _, _, _, _)
SynthesizeLoop(new, j, old, tombstones, tombstone_dels, st) ==
    IF j > Len(new) THEN st
    ELSE SynthesizeLoop(new, j + 1, old, tombstones, tombstone_dels,
             FillSegment(old, tombstones, tombstone_dels, new[j][2],
                         [st EXCEPT !.beg = new[j][1]]))

\* synthesize reading the tombstones at the positions of the union string
synthesize_unmapped(tombstones, tombstone_dels, union_len, from_dels, to_dels) ==
    LET st == SynthesizeLoop(complement_iter(to_dels, union_len), 1,
                             complement_iter(from_dels, union_len),
                             tombstones, 0 .. (union_len - 1),
                             [els |-> <<>>, x |-> 0, k |-> 1, beg |-> 0])
    IN  [els |-> st.els, base_len |-> len_after_delete(from_dels, union_len)]

synthesize(tombstones, tombstone_dels, union_len, from_dels, to_dels) ==
    LET st == SynthesizeLoop(complement_iter(to_dels, union_len), 1,
                             complement_iter(from_dels, union_len),
                             tombstones, tombstone_dels,
                             [els |-> <<>>, x |-> 0, k |-> 1, beg |-> 0])
    IN  [els |-> st.els, base_len |-> len_after_delete(from_dels, union_len)]

(***************************************************************************)
(* InsertDelta::transform_expand.  st = [els, x, y, i, b1, k, stuck]; k is *)
(* the index of last_xform in xr, the complement ranges of xform.  stuck   *)
(* records that the call does not return: an iteration of the outer loop   *)
(* that changes nothing repeats forever, and e + y - x below y underflows. *)
(* The loop returns for every delta whose base_len is                      *)
(* xform.len_after_delete(l).                                              *)
(***************************************************************************)
\* the y a Copy element reaches: its end, or the end of the current range of xr
NextY(cur, xr, st) ==
    LET ny0 == cur[st.i].e + st.y - st.x
    IN  IF st.k <= Len(xr) THEN Min(ny0, xr[st.k][2]) ELSE ny0

\* advance x and y to next_y within the Copy element cur[st.i]
CopyStep(cur, xr, st, next_y) ==
    IF next_y < st.y THEN [st EXCEPT !.stuck = TRUE]
    ELSE [st EXCEPT !.x = st.x + (next_y - st.y),
                    !.y = next_y,
                    !.i = IF st.x + (next_y - st.y) = cur[st.i].e THEN st.i + 1 ELSE st.i,
                    !.k = IF st.k <= Len(xr) /\ next_y = xr[st.k][2]
                          THEN st.k + 1 ELSE st.k]

\* the inner loop: the Insert elements at i, then at most one step in a Copy
RECURSIVE ExpandInner(_, _, _, _)
ExpandInner(cur, xr, nib, st) ==
    IF ~(st.i <= Len(cur)) THEN st
    ELSE IF cur[st.i].t = "Insert"
         THEN ExpandInner(cur, xr, nib,
                  [st EXCEPT !.els = (IF st.y > st.b1 THEN Append(st.els, Copy(st.b1, st.y))
                                      ELSE st.els) \o <<Insert(cur[st.i].n)>>,
                             !.b1 = st.y,
                             !.i = st.i + 1])
         ELSE IF st.y >= nib THEN CopyStep(cur, xr, st, NextY(cur, xr, st))
              ELSE st

\* y moves to next_iv_beg before the inner loop (after) or behind it (~after)
SkipTo(move, nib, st) == IF move /\ st.y < nib THEN [st EXCEPT !.y = nib] ELSE st

\* one iteration of the outer loop, with next_iv_beg = nib
ExpandIteration(cur, xr, nib, after, st) ==
    SkipTo(~after, nib, ExpandInner(cur, xr, nib, SkipTo(after, nib, st)))

\* an iteration that changed nothing will repeat forever
MarkStuck(st, st3) == IF st3 = st THEN [st EXCEPT !.stuck = TRUE] ELSE st3

RECURSIVE ExpandOuter(_, _, _, _, _)
ExpandOuter(cur, xr, l, after, st) ==
    IF st.stuck \/ ~(st.y < l \/ st.i <= Len(cur)) THEN st
    ELSE ExpandOuter(cur, xr, l, after,
             MarkStuck(st, ExpandIteration(cur, xr,
                               IF st.k <= Len(xr) THEN xr[st.k][1] ELSE l, after, st)))

ExpandRun(d, xform, l, after) ==
    ExpandOuter(d.els, complement_iter(xform, l), l, after,
                [els |-> <<>>, x |-> 0, y |-> 0, i |-> 1, b1 |-> 0, k |-> 1,
                 stuck |-> FALSE])

\* what the loop leaves: the delta returned, and whether the call returns
ExpandResult(st, l) ==
    [delta |-> [els |-> IF st.y > st.b1 THEN Append(st.els, Copy(st.b1, st.y))
                        ELSE st.els,
                base_len |-> l],
     returns |-> ~st.stuck]

transform_expand_call(d, xform, l, after) == ExpandResult(ExpandRun(d, xform, l, after), l)

\* transform_expand that puts the inserts before the xform positions, whatever after is
InsertDelta_transform_expand_before(d, xform, l, after) ==
    transform_expand_call(d, xform, l, FALSE).delta

InsertDelta_transform_expand(d, xform, l, after) ==
    transform_expand_call(d, xform, l, after).delta

\* the call InsertDelta::transform_expand(d, xform, l, after) returns
transform_expand_returns(d, xform, l, after) ==
    transform_expand_call(d, xform, l, after).returns

\* transform_shrink mapping the Copys through xform itself, not its complement
InsertDelta_transform_shrink_uncomplemented(d, xform) ==
    [els |-> [i \in 1 .. Len(d.els) |->
                 IF d.els[i].t = "Copy"
                 THEN Copy(doc_index_to_subset(xform, d.els[i].b),
                           doc_index_to_subset(xform, d.els[i].e))
                 ELSE Insert(d.els[i].n)],
     base_len |-> len_after_delete(xform, d.base_len)]

InsertDelta_transform_shrink(d, xform) ==
    LET compl == complement(xform, d.base_len)
    IN  [els |-> [i \in 1 .. Len(d.els) |->
                     IF d.els[i].t = "Copy"
                     THEN Copy(doc_index_to_subset(compl, d.els[i].b),
                               doc_index_to_subset(compl, d.els[i].e))
                     ELSE Insert(d.els[i].n)],
         base_len |-> len_after_delete(xform, d.base_len)]

(***************************************************************************)
(* Builder.  An interval is a pair <<start, end>>.                         *)
(***************************************************************************)
Builder_new(base_len) ==
    [delta |-> [els |-> <<>>, base_len |-> base_len], last_offset |-> 0]

\* the assertion demanding a gap between the intervals
Builder_sorted_strictly(bld, iv) == iv[1] > bld.last_offset

\* the assertion of Builder::delete: the intervals are properly sorted
Builder_sorted(bld, iv) == iv[1] >= bld.last_offset

Builder_delete(bld, iv) ==
    [delta |-> [bld.delta EXCEPT !.els =
                   IF iv[1] > bld.last_offset
                   THEN Append(bld.delta.els, Copy(bld.last_offset, iv[1]))
                   ELSE bld.delta.els],
     last_offset |-> iv[2]]

Builder_replace(bld, iv, rope) ==
    LET b == Builder_delete(bld, iv)
    IN  [b EXCEPT !.delta.els = Append(b.delta.els, Insert(rope))]

\* build without the Copy of what is behind the last interval
Builder_build_without_tail(bld) == bld.delta

Builder_build(bld) ==
    IF bld.last_offset < bld.delta.base_len
    THEN [bld.delta EXCEPT !.els = Append(bld.delta.els,
                                          Copy(bld.last_offset, bld.delta.base_len))]
    ELSE bld.delta

simple_edit(iv, rope, base_len) ==
    Builder_build(IF Len(rope) > 0
                  THEN Builder_replace(Builder_new(base_len), iv, rope)
                  ELSE Builder_delete(Builder_new(base_len), iv))

(***************************************************************************)
(* Transformer: from coordinates in the source sequence to coordinates in  *)
(* the sequence after the delta is applied.                                *)
(***************************************************************************)
\* the loop of transform over the elements els[k ..], result counted so far
RECURSIVE TransformLoop(_, _, _, _, _)
TransformLoop(els, k, ix, after, result) ==
    IF k > Len(els) THEN result
    ELSE IF els[k].t = "Copy"
         THEN IF ix <= els[k].b THEN result
              ELSE IF ix < els[k].e \/ (ix = els[k].e /\ ~after)
                   THEN result + ix - els[k].b
                   ELSE TransformLoop(els, k + 1, ix, after, result + els[k].e - els[k].b)
         ELSE TransformLoop(els, k + 1, ix, after, result + Len(els[k].n))

\* a variant that leaves the coordinate as it is
transform_unmoved(d, ix, after) == ix

transform(d, ix, after) ==
    IF ix = 0 /\ ~after THEN 0 ELSE TransformLoop(d.els, 1, ix, after, 0)

(***************************************************************************)
(* Engine.  An engine value is a record [rev_id_counter, text, tombstones, *)
(* revs]; a revision is [rev_id, deletes_from_union, union_str_len, edit]. *)
(***************************************************************************)
Edit(priority, undo_group, inserts, deletes) ==
    [t |-> "Edit", priority |-> priority, undo_group |-> undo_group,
     inserts |-> inserts, deletes |-> deletes, groups |-> {}]

Undo(groups) ==
    [t |-> "Undo", priority |-> 0, undo_group |-> 0,
     inserts |-> {}, deletes |-> {}, groups |-> groups]

Revision(rev_id, deletes_from_union, union_str_len, edit) ==
    [rev_id |-> rev_id, deletes_from_union |-> deletes_from_union,
     union_str_len |-> union_str_len, edit |-> edit]

Engine_new(initial_contents) ==
    [rev_id_counter |-> 1,
     text |-> initial_contents,
     tombstones |-> <<>>,
     revs |-> <<Revision(0, Subset_default, Len(initial_contents), Undo({}))>>]

\* the indices of the Undo revisions
UndoIndices(revs) == { i \in 1 .. Len(revs) : revs[i].edit.t = "Undo" }

\* [some |-> an Undo revision exists, groups |-> the groups of the last one]
get_current_undo(revs) ==
    IF UndoIndices(revs) = {} THEN [some |-> FALSE, groups |-> {}]
    ELSE [some |-> TRUE,
          groups |-> revs[CHOOSE i \in UndoIndices(revs) :
                              \A j \in UndoIndices(revs) : j <= i].edit.groups]

\* the index of the last revision with this rev_id; 0 when there is none
find_rev(revs, rev_id) ==
    LET found == { i \in 1 .. Len(revs) : revs[i].rev_id = rev_id }
    IN  IF found = {} THEN 0 ELSE CHOOSE i \in found : \A j \in found : j <= i

\* lift dels through the inserts of the Edit revisions revs[i ..], marking them deleted
RECURSIVE UnionLater(_, _, _)
UnionLater(revs, i, dels) ==
    IF i > Len(revs) THEN dels
    ELSE UnionLater(revs, i + 1,
             IF revs[i].edit.t = "Edit" /\ ~is_empty(revs[i].edit.inserts)
             THEN transform_union(dels, revs[i].edit.inserts)
             ELSE dels)

\* a variant that does not lift the deletes through the later inserts
deletes_from_union_unlifted(revs, rev_index) == revs[rev_index].deletes_from_union

deletes_from_union_for_index(revs, rev_index) ==
    UnionLater(revs, rev_index + 1, revs[rev_index].deletes_from_union)

head_rev(e) == e.revs[Len(e.revs)]

rev_content_for_index(e, rev_index) ==
    LET old_deletes_from_union == deletes_from_union_for_index(e.revs, rev_index)
        delta == synthesize(e.tombstones, head_rev(e).deletes_from_union,
                            head_rev(e).union_str_len,
                            head_rev(e).deletes_from_union, old_deletes_from_union)
    IN  apply(delta, e.text)

get_head_rev_id(e) == head_rev(e).rev_id

get_head(e) == e.text

\* [some |-> the revision is in the history, rope |-> its text]
get_rev(e, rev) ==
    IF find_rev(e.revs, rev) = 0 THEN [some |-> FALSE, rope |-> <<>>]
    ELSE [some |-> TRUE, rope |-> rev_content_for_index(e, find_rev(e.revs, rev))]

\* move sections from text into tombstones and out of tombstones
shuffle_tombstones(text, tombstones, old_deletes_from_union, new_deletes_from_union) ==
    LET union_len == Len(text) + Len(tombstones)
        inverse_tombstones_map == complement(old_deletes_from_union, union_len)
        move_delta == synthesize(text, inverse_tombstones_map, union_len,
                                 inverse_tombstones_map,
                                 complement(new_deletes_from_union, union_len))
    IN  apply(move_delta, tombstones)

shuffle(text, tombstones, old_deletes_from_union, new_deletes_from_union) ==
    LET union_len == Len(text) + Len(tombstones)
        del_delta == synthesize(tombstones, old_deletes_from_union, union_len,
                                old_deletes_from_union, new_deletes_from_union)
    IN  [text |-> apply(del_delta, text),
         tombstones |-> shuffle_tombstones(text, tombstones, old_deletes_from_union,
                                           new_deletes_from_union)]

\* a variant that synthesizes the delta from the head to the revision
delta_rev_head_reversed(e, base_rev) ==
    LET ix == find_rev(e.revs, base_rev)
        prev_from_union == UnionLater(e.revs, ix + 1, e.revs[ix].deletes_from_union)
    IN  synthesize(e.tombstones, head_rev(e).deletes_from_union,
                   head_rev(e).union_str_len,
                   head_rev(e).deletes_from_union, prev_from_union)

delta_rev_head(e, base_rev) ==
    LET ix == find_rev(e.revs, base_rev)
        prev_from_union == UnionLater(e.revs, ix + 1, e.revs[ix].deletes_from_union)
        old_tombstones == shuffle_tombstones(e.text, e.tombstones,
                              head_rev(e).deletes_from_union, prev_from_union)
    IN  synthesize(old_tombstones, prev_from_union, head_rev(e).union_str_len,
                   prev_from_union, head_rev(e).deletes_from_union)

\* a variant that puts the inserts of the higher priority first
InsertsAfter_reversed(new_priority, priority) == new_priority <= priority

\* a variant that ignores the priorities: the later call's inserts come last
InsertsAfter_later_call(new_priority, priority) == TRUE

\* a variant that puts a new edit after the earlier ones of lower priority only
InsertsAfter_strictly_higher(new_priority, priority) == new_priority > priority

\* new edits of equal priority come after the earlier ones
InsertsAfter(new_priority, priority) == new_priority >= priority

\* one rebase step: the delta through the transform_expand call made for it,
\* the deletions through inserts; returns is FALSE when the call does not return
RebaseStep(st, call, inserts) ==
    IF call.returns
    THEN [ins |-> call.delta,
          dels |-> Subset_transform_expand(st.dels, inserts),
          returns |-> TRUE]
    ELSE [st EXCEPT !.returns = FALSE]

\* rebase [ins, dels] from the union of revs[i - 1] onto the head union
RECURSIVE RebaseLater(_, _, _, _)
RebaseLater(revs, i, new_priority, st) ==
    IF i > Len(revs) \/ ~st.returns THEN st
    ELSE RebaseLater(revs, i + 1, new_priority,
             IF revs[i].edit.t = "Edit" /\ ~is_empty(revs[i].edit.inserts)
             THEN RebaseStep(st,
                      transform_expand_call(st.ins, revs[i].edit.inserts,
                          revs[i].union_str_len,
                          InsertsAfter(new_priority, revs[i].edit.priority)),
                      revs[i].edit.inserts)
             ELSE st)

\* f = delta.factor(), lifted into the union of revs[ix] and rebased from there
RebaseFrom(revs, ix, new_priority, f) ==
    RebaseLater(revs, ix + 1, new_priority,
        RebaseStep([ins |-> f.ins, dels |-> f.dels, returns |-> TRUE],
                   transform_expand_call(f.ins, revs[ix].deletes_from_union,
                                         revs[ix].union_str_len, TRUE),
                   revs[ix].deletes_from_union))

\* the insert-only delta of the edit and its deletions, rebased onto the head union
union_ins_delta(e, new_priority, base_rev, delta) ==
    RebaseFrom(e.revs, find_rev(e.revs, base_rev), new_priority, factor(delta))

\* the call edit_rev(priority, undo_group, base_rev, delta) returns: base_rev is
\* in the history ("base revision not found" otherwise) and the rebase ends
edit_rev_returns(e, new_priority, base_rev, delta) ==
    /\ find_rev(e.revs, base_rev) # 0
    /\ union_ins_delta(e, new_priority, base_rev, delta).returns

\* a variant in which no edit is born undone
ToDelete_never_undone(undone, new_inserts, new_deletes) == new_deletes

\* a variant that loses the deletions of an edit that is not undone
ToDelete_loses_deletes(undone, new_inserts, new_deletes) ==
    IF undone THEN new_inserts ELSE Subset_default

\* the deletions the new revision adds to the rebased deletes_from_union
ToDelete(undone, new_inserts, new_deletes) ==
    IF undone THEN new_inserts ELSE new_deletes

\* the deletions of the edit in the union that holds its inserts
NewDeletes(dels, new_inserts) ==
    IF ~is_empty(new_inserts) THEN Subset_transform_expand(dels, new_inserts) ELSE dels

\* the new edit is in an undo group that was already undone
Undone(revs, undo_group) ==
    get_current_undo(revs).some /\ undo_group \in get_current_undo(revs).groups

\* [rev, text, tombstones]: the revision and the shuffled ropes
NewRevShuffled(e, new_priority, undo_group, union_str_len, new_inserts, new_deletes, new_deletes_from_union, sh) ==
    [rev |-> Revision(e.rev_id_counter, new_deletes_from_union, union_str_len,
                      Edit(new_priority, undo_group, new_inserts, new_deletes)),
     text |-> sh.text,
     tombstones |-> sh.tombstones]

\* move deleted or undone-inserted things from text to tombstones
NewRevDeleting(e, new_priority, undo_group, ins, new_inserts, new_deletes, text_with_inserts, rebased_deletes_from_union, new_deletes_from_union) ==
    NewRevShuffled(e, new_priority, undo_group, new_document_len(ins), new_inserts,
                   new_deletes, new_deletes_from_union,
                   shuffle(text_with_inserts, e.tombstones, rebased_deletes_from_union,
                           new_deletes_from_union))

\* rebase the deletions and the head's deletes_from_union over the new inserts
NewRevInserting(e, new_priority, undo_group, ins, new_inserts, new_deletes, rebased_deletes_from_union) ==
    NewRevDeleting(e, new_priority, undo_group, ins, new_inserts, new_deletes,
        apply(InsertDelta_transform_shrink(ins, head_rev(e).deletes_from_union), e.text),
        rebased_deletes_from_union,
        union(rebased_deletes_from_union,
              ToDelete(Undone(e.revs, undo_group), new_inserts, new_deletes)))

\* rb = [ins, dels]: the edit rebased onto the head union
NewRevRebased(e, new_priority, undo_group, ins, dels, new_inserts) ==
    NewRevInserting(e, new_priority, undo_group, ins, new_inserts,
        NewDeletes(dels, new_inserts),
        Subset_transform_expand(head_rev(e).deletes_from_union, new_inserts))

NewRevFrom(e, new_priority, undo_group, rb) ==
    NewRevRebased(e, new_priority, undo_group, rb.ins, rb.dels, inserted_subset(rb.ins))

mk_new_rev(e, new_priority, undo_group, base_rev, delta) ==
    NewRevFrom(e, new_priority, undo_group,
               union_ins_delta(e, new_priority, base_rev, delta))

\* a variant that appends the revision without counting it
Appended_uncounted(e, rev, r) ==
    [rev_id_counter |-> e.rev_id_counter,
     text |-> r.text,
     tombstones |-> r.tombstones,
     revs |-> Append(e.revs, rev)]

\* the engine with the revision appended and the ropes of r
Appended(e, rev, r) ==
    [rev_id_counter |-> e.rev_id_counter + 1,
     text |-> r.text,
     tombstones |-> r.tombstones,
     revs |-> Append(e.revs, rev)]

EditRevFrom(e, r) == Appended(e, r.rev, r)

edit_rev(e, priority, undo_group, base_rev, delta) ==
    EditRevFrom(e, mk_new_rev(e, priority, undo_group, base_rev, delta))

\* find_rev(base_rev).expect("base revision not found"): the message of the
\* panic, "" when the revision is found
expect_rev(e, base_rev) ==
    IF find_rev(e.revs, base_rev) = 0 THEN "base revision not found" ELSE ""

\* a variant that counts the revision before it looks for the base revision
edit_rev_call_counts_first(e, priority, undo_group, base_rev, delta) ==
    IF expect_rev(e, base_rev) # ""
    THEN [panic |-> expect_rev(e, base_rev),
          engine |-> [e EXCEPT !.rev_id_counter = e.rev_id_counter + 1]]
    ELSE [panic |-> "", engine |-> edit_rev(e, priority, undo_group, base_rev, delta)]

\* a call of edit_rev with any base_rev: [panic |-> the message of the panic
\* that ends it or "", engine |-> the engine it leaves]; mk_new_rev runs, and
\* panics, before the first assignment
edit_rev_call(e, priority, undo_group, base_rev, delta) ==
    IF expect_rev(e, base_rev) # ""
    THEN [panic |-> expect_rev(e, base_rev), engine |-> e]
    ELSE [panic |-> "", engine |-> edit_rev(e, priority, undo_group, base_rev, delta)]

\* a call of delta_rev_head with any base_rev, on &self
delta_rev_head_call(e, base_rev) ==
    IF expect_rev(e, base_rev) # ""
    THEN [panic |-> expect_rev(e, base_rev), engine |-> e, delta |-> <<>>]
    ELSE [panic |-> "", engine |-> e, delta |-> delta_rev_head(e, base_rev)]

\* a variant that loses the deletions of the edits that are not undone
UndoStep_loses_deletes(dels, rev, groups) ==
    IF rev.edit.t # "Edit" THEN dels
    ELSE IF rev.edit.undo_group \in groups
         THEN transform_union(dels, rev.edit.inserts)
         ELSE Subset_transform_expand(dels, rev.edit.inserts)

\* a variant that keeps the inserts of an undone edit in the text
UndoStep_keeps_inserts(dels, rev, groups) ==
    IF rev.edit.t # "Edit" THEN dels
    ELSE IF rev.edit.undo_group \in groups
         THEN Subset_transform_expand(dels, rev.edit.inserts)
         ELSE union(Subset_transform_expand(dels, rev.edit.inserts), rev.edit.deletes)

\* one step of compute_undo: the deletes_from_union after revision rev
UndoStep(dels, rev, groups) ==
    IF rev.edit.t # "Edit" THEN dels
    ELSE IF rev.edit.undo_group \in groups
         THEN (IF ~is_empty(rev.edit.inserts)
               THEN transform_union(dels, rev.edit.inserts) ELSE dels)
         ELSE LET d1 == IF ~is_empty(rev.edit.inserts)
                        THEN Subset_transform_expand(dels, rev.edit.inserts) ELSE dels
              IN  IF ~is_empty(rev.edit.deletes) THEN union(d1, rev.edit.deletes) ELSE d1

RECURSIVE UndoLoop(_, _, _, _)
UndoLoop(revs, i, groups, dels) ==
    IF i > Len(revs) THEN dels
    ELSE UndoLoop(revs, i + 1, groups, UndoStep(dels, revs[i], groups))

\* a variant that starts from the head's deletes_from_union, not from scratch
compute_undo_from_head(e, groups) ==
    Revision(e.rev_id_counter,
             UndoLoop(e.revs, 1, groups, head_rev(e).deletes_from_union),
             head_rev(e).union_str_len, Undo(groups))

compute_undo(e, groups) ==
    Revision(e.rev_id_counter, UndoLoop(e.revs, 1, groups, Subset_default),
             head_rev(e).union_str_len, Undo(groups))

UndoFrom(e, new_rev) ==
    Appended(e, new_rev, shuffle(e.text, e.tombstones, head_rev(e).deletes_from_union,
                                 new_rev.deletes_from_union))

\* a variant that adds the groups to the ones that are undone already
undo_adds_groups(e, groups) ==
    UndoFrom(e, compute_undo(e, groups \cup get_current_undo(e.revs).groups))

undo(e, groups) == UndoFrom(e, compute_undo(e, groups))

\* find_rev(rev).map(deletes_from_union_for_index): [some, dels]
subset_of_rev(e, rev) ==
    IF find_rev(e.revs, rev) = 0 THEN [some |-> FALSE, dels |-> Subset_default]
    ELSE [some |-> TRUE,
          dels |-> deletes_from_union_for_index(e.revs, find_rev(e.revs, rev))]

\* a variant that compares the two options without base_subset.is_some()
is_equivalent_revision_unchecked(e, base_rev, other_rev) ==
    subset_of_rev(e, base_rev) = subset_of_rev(e, other_rev)

is_equivalent_revision(e, base_rev, other_rev) ==
    /\ subset_of_rev(e, base_rev).some
    /\ subset_of_rev(e, base_rev) = subset_of_rev(e, other_rev)

(***************************************************************************)
(* Engine::gc                                                              *)
(***************************************************************************)
\* first pass, one revision: the positions of the head union that go away
GcDelsStep(gc_dels, rev, retain_revs, gc_groups, cur_undo) ==
    IF rev.edit.t # "Edit" THEN gc_dels
    ELSE IF rev.rev_id \notin retain_revs /\ rev.edit.undo_group \in gc_groups
         THEN IF cur_undo.some /\ rev.edit.undo_group \in cur_undo.groups
              THEN (IF ~is_empty(rev.edit.inserts)
                    THEN transform_union(gc_dels, rev.edit.inserts) ELSE gc_dels)
              ELSE LET d1 == IF ~is_empty(rev.edit.inserts)
                             THEN Subset_transform_expand(gc_dels, rev.edit.inserts)
                             ELSE gc_dels
                   IN  IF ~is_empty(rev.edit.deletes) THEN union(d1, rev.edit.deletes) ELSE d1
         ELSE IF ~is_empty(rev.edit.inserts)
              THEN Subset_transform_expand(gc_dels, rev.edit.inserts)
              ELSE gc_dels

RECURSIVE GcDelsLoop(_, _, _, _, _, _)
GcDelsLoop(revs, i, gc_dels, retain_revs, gc_groups, cur_undo) ==
    IF i > Len(revs) THEN gc_dels
    ELSE GcDelsLoop(revs, i + 1,
                    GcDelsStep(gc_dels, revs[i], retain_revs, gc_groups, cur_undo),
                    retain_revs, gc_groups, cur_undo)

gc_dels_of(e, gc_groups) ==
    GcDelsLoop(e.revs, 1, Subset_default, {get_head_rev_id(e)}, gc_groups,
               get_current_undo(e.revs))

\* second pass, from the last revision to the first; out is in reverse order
RECURSIVE GcRebuild(_, _, _, _, _, _)
GcRebuild(old_revs, i, gc_dels, out, retain_revs, gc_groups) ==
    IF i < 1 THEN out
    ELSE LET rev == old_revs[i]
             shrunk == IF is_empty(gc_dels)
                       THEN rev
                       ELSE Revision(rev.rev_id,
                                Subset_transform_shrink(gc_dels, rev.deletes_from_union),
                                len_after_delete(gc_dels, rev.union_str_len),
                                IF rev.edit.t = "Edit"
                                THEN Edit(rev.edit.priority, rev.edit.undo_group,
                                          Subset_transform_shrink(gc_dels, rev.edit.inserts),
                                          Subset_transform_shrink(gc_dels, rev.edit.deletes))
                                ELSE rev.edit)
         IN  IF rev.edit.t = "Edit"
             THEN GcRebuild(old_revs, i - 1,
                      IF is_empty(rev.edit.inserts) THEN gc_dels
                      ELSE Subset_transform_shrink(rev.edit.inserts, gc_dels),
                      IF rev.rev_id \in retain_revs \/ rev.edit.undo_group \notin gc_groups
                      THEN Append(out, shrunk) ELSE out,
                      retain_revs, gc_groups)
             ELSE GcRebuild(old_revs, i - 1, gc_dels,
                      IF rev.rev_id \in retain_revs
                      THEN Append(out, [shrunk EXCEPT !.edit = Undo(rev.edit.groups \ gc_groups)])
                      ELSE out,
                      retain_revs, gc_groups)

\* a variant that leaves the rebuilt revisions in the order they were pushed
reverse_skipped(s) == s

reverse(s) == [i \in 1 .. Len(s) |-> s[Len(s) + 1 - i]]

\* a variant that keeps the whole history
gc_keeps_history(e, gc_groups) == e

gc(e, gc_groups) ==
    LET gc_dels == gc_dels_of(e, gc_groups)
        not_in_tombstones == complement(head_rev(e).deletes_from_union,
                                        head_rev(e).union_str_len)
        dels_from_tombstones == Subset_transform_shrink(gc_dels, not_in_tombstones)
    IN  [rev_id_counter |-> e.rev_id_counter,
         text |-> e.text,
         tombstones |-> IF ~is_empty(gc_dels)
                        THEN delete_from(dels_from_tombstones, e.tombstones)
                        ELSE e.tombstones,
         revs |-> reverse(GcRebuild(e.revs, Len(e.revs), gc_dels, <<>>,
                                    {get_head_rev_id(e)}, gc_groups))]

(***************************************************************************)
(* IndexSet.  ranges is a sequence of pairs <<start, end>>; the indices of *)
(* the code count from 0, those of the sequence from 1.                    *)
(***************************************************************************)
Max(a, b) == IF a > b THEN a ELSE b

IndexSet_new == <<>>

\* remove_n_at(v, index, n): v without the n elements from index on
remove_n_at(v, index, n) ==
    IF n = 1 THEN SubSeq(v, 1, index) \o SubSeq(v, index + 2, Len(v))
    ELSE IF n > 1
         THEN [i \in 1 .. (Len(v) - n) |-> IF i - 1 >= index THEN v[i + n] ELSE v[i]]
         ELSE v

\* the last j with end >= ranges[j].0 for all of i + 1 .. j
RECURSIVE MergeEnd(_, _, _)
MergeEnd(ranges, j, end) ==
    IF j + 1 < Len(ranges) /\ end >= ranges[j + 2][1]
    THEN MergeEnd(ranges, j + 1, end)
    ELSE j

\* the third branch: ranges[i] takes in start..end and the ranges up to j
MergeAt(ranges, i, start, end) ==
    LET j == MergeEnd(ranges, i, end)
    IN  remove_n_at([ranges EXCEPT ![i + 1] = <<Min(start, ranges[i + 1][1]),
                                                 Max(end, ranges[j + 1][2])>>],
                    i + 1, j - i)

\* the third branch without the loop over the ranges that follow
MergeAtOnly(ranges, i, start, end) ==
    [ranges EXCEPT ![i + 1] = <<Min(start, ranges[i + 1][1]), Max(end, ranges[i + 1][2])>>]

\* Vec::insert(i, x)
VecInsert(v, i, x) == SubSeq(v, 1, i) \o <<x>> \o SubSeq(v, i + 1, Len(v))

\* the loop of union_one_range from index i on
RECURSIVE UnionLoop(_, _, _, _)
UnionLoop(ranges, i, start, end) ==
    IF i >= Len(ranges) THEN Append(ranges, <<start, end>>)
    ELSE IF start > ranges[i + 1][2] THEN UnionLoop(ranges, i + 1, start, end)
    ELSE IF end < ranges[i + 1][1] THEN VecInsert(ranges, i, <<start, end>>)
    ELSE MergeAt(ranges, i, start, end)

\* union_one_range merging only the ranges that overlap start..end
RECURSIVE UnionLoopOverlapping(_, _, _, _)
UnionLoopOverlapping(ranges, i, start, end) ==
    IF i >= Len(ranges) THEN Append(ranges, <<start, end>>)
    ELSE IF start >= ranges[i + 1][2] THEN UnionLoopOverlapping(ranges, i + 1, start, end)
    ELSE IF end <= ranges[i + 1][1] THEN VecInsert(ranges, i, <<start, end>>)
    ELSE MergeAt(ranges, i, start, end)

union_one_range_overlapping(ranges, start, end) == UnionLoopOverlapping(ranges, 0, start, end)

union_one_range(ranges, start, end) == UnionLoop(ranges, 0, start, end)

\* minus_one_range: the ranges left once those that end at or before start are skipped
RECURSIVE SkipRanges(_, _)
SkipRanges(ranges, start) ==
    IF ranges # <<>> /\ start >= ranges[1][2] THEN SkipRanges(Tail(ranges), start)
    ELSE ranges

\* MinusIter::next until it returns None: the items in the order they are returned
RECURSIVE MinusIterCollect(_, _, _)
MinusIterCollect(ranges, start, end) ==
    IF ~(start < end) THEN <<>>
    ELSE IF ranges = <<>> \/ end <= ranges[1][1] THEN <<<<start, end>>>>
    ELSE (IF ranges[1][1] > start THEN <<<<start, ranges[1][1]>>>> ELSE <<>>)
         \o MinusIterCollect(Tail(ranges), ranges[1][2], end)

\* minus_one_range without the skip over the ranges before start
minus_one_range_unskipped(ranges, start, end) == MinusIterCollect(ranges, start, end)

\* minus_one_range(start, end).collect()
minus_one_range(ranges, start, end) ==
    MinusIterCollect(SkipRanges(ranges, start), start, end)

(***************************************************************************)
(* The state machine: an engine driven by edit_rev, undo and gc calls.     *)
(***************************************************************************)
VARIABLES rev_id_counter, text, tombstones, revs, union_str, log, panic, calc, ranges, index_calls

vars == <<rev_id_counter, text, tombstones, revs, union_str, log, panic, calc, ranges, index_calls>>

\* bounds of the model
InitLen == 2
MaxOps == 3
MaxPriority == 1
MaxGroup == 1

Priorities == 0 .. MaxPriority
Groups == 0 .. MaxGroup

engine == [rev_id_counter |-> rev_id_counter, text |-> text,
           tombstones |-> tombstones, revs |-> revs]

initial_contents == [i \in 1 .. InitLen |-> i]

\* the characters a new edit inserts: fresh ones, named after its rev_id
NewChar(e) == 10 * e.rev_id_counter

\* the length of the text of revision rev
RevTextLen(rev) == len_after_delete(rev.deletes_from_union, rev.union_str_len)

\* the intervals <<start, end>> inside [0, n]
Intervals(n) == { iv \in (0 .. n) \X (0 .. n) : iv[1] <= iv[2] }

\* every delta Delta::simple_edit builds against a text of length n, inserting c or nothing
SimpleEdits(n, c) == { simple_edit(iv, r, n) : iv \in Intervals(n), r \in {<<>>, <<c>>} }

\* a delta of two Builder calls: replace the first character, delete the last
ReplaceAndDelete(n, c) ==
    LET b1 == Builder_replace(Builder_new(n), <<0, 1>>, <<c>>)
    IN  Builder_build(IF n >= 2 THEN Builder_delete(b1, <<n - 1, n>>) ELSE b1)

\* the deltas a caller submits to the engine against a text of length n:
\* insert one character, delete one character, replace the first character,
\* or replace the first and delete the last
Deltas(n, c) ==
    { simple_edit(<<s, s>>, <<c>>, n) : s \in 0 .. n }
    \cup { simple_edit(<<s, s + 1>>, <<>>, n) : s \in 0 .. (n - 1) }
    \cup (IF n >= 1 THEN {simple_edit(<<0, 1>>, <<c>>, n), ReplaceAndDelete(n, c)} ELSE {})

LogEdit(priority, undo_group, base_rev, delta) ==
    [op |-> "edit_rev", priority |-> priority, undo_group |-> undo_group,
     base_rev |-> base_rev, delta |-> delta, groups |-> {}]

LogUndo(groups) ==
    [op |-> "undo", priority |-> 0, undo_group |-> 0, base_rev |-> 0,
     delta |-> [els |-> <<>>, base_len |-> 0], groups |-> groups]

LogGc(groups) == [LogUndo(groups) EXCEPT !.op = "gc"]

\* no call has panicked
NoPanic == [msg |-> "", op |-> "", base_rev |-> 0]

\* no Delta is being computed with
NoCalc == [op |-> "none"]

\* no call made on the IndexSet yet: its last call, the arguments, what
\* minus_one_range yielded, the ranges before the call, and the indices added
\* since the last clear
NoIndexCalls ==
    [op |-> "new", start |-> 0, end |-> 0, out |-> <<>>, before |-> <<>>, added |-> {}]

Init ==
    /\ rev_id_counter = Engine_new(initial_contents).rev_id_counter
    /\ text = Engine_new(initial_contents).text
    /\ tombstones = Engine_new(initial_contents).tombstones
    /\ revs = Engine_new(initial_contents).revs
    /\ union_str = initial_contents
    /\ log = <<>>
    /\ panic = NoPanic
    /\ calc = NoCalc
    /\ ranges = IndexSet_new
    /\ index_calls = NoIndexCalls

\* the call leaves the engine e
Leaves(e) ==
    /\ rev_id_counter' = e.rev_id_counter
    /\ text' = e.text
    /\ tombstones' = e.tombstones
    /\ revs' = e.revs
    /\ UNCHANGED <<calc, ranges, index_calls>>

\* the call returns and leaves the engine e
Becomes(e) == Leaves(e) /\ panic' = NoPanic

EditRev ==
    \E priority \in Priorities, undo_group \in Groups, ix \in 1 .. Len(revs) :
        \E delta \in Deltas(RevTextLen(revs[ix]), NewChar(engine)) :
            /\ Len(log) < MaxOps
            /\ find_rev(revs, revs[ix].rev_id) = ix
            /\ edit_rev_returns(engine, priority, revs[ix].rev_id, delta)
            /\ Becomes(edit_rev(engine, priority, undo_group, revs[ix].rev_id, delta))
            /\ union_str' = apply(union_ins_delta(engine, priority, revs[ix].rev_id,
                                                  delta).ins, union_str)
            /\ log' = Append(log, LogEdit(priority, undo_group, revs[ix].rev_id, delta))

UndoCall ==
    \E groups \in SUBSET Groups :
        /\ Len(log) < MaxOps
        /\ Becomes(undo(engine, groups))
        /\ union_str' = union_str
        /\ log' = Append(log, LogUndo(groups))

GcCall ==
    \E gc_groups \in SUBSET Groups :
        /\ Len(log) < MaxOps
        /\ Becomes(gc(engine, gc_groups))
        /\ union_str' = delete_from(gc_dels_of(engine, gc_groups), union_str)
        /\ log' = Append(log, LogGc(gc_groups))

Next == EditRev \/ UndoCall \/ GcCall

\* the rev_ids of the history
RevIds == { revs[i].rev_id : i \in 1 .. Len(revs) }

\* the rev_ids that are not in the history: the next one, and the ones gc dropped
UnknownRevIds == (0 .. rev_id_counter) \ RevIds

\* edit_rev with a base_rev that is not in the history
EditRevUnknown ==
    \E priority \in Priorities, undo_group \in Groups, base_rev \in UnknownRevIds :
        \E delta \in Deltas(Len(text), NewChar(engine)) :
            /\ panic = NoPanic
            /\ edit_rev_call(engine, priority, undo_group, base_rev, delta).panic # ""
            /\ Leaves(edit_rev_call(engine, priority, undo_group, base_rev, delta).engine)
            /\ panic' = [msg |-> edit_rev_call(engine, priority, undo_group,
                                               base_rev, delta).panic,
                         op |-> "edit_rev", base_rev |-> base_rev]
            /\ UNCHANGED <<union_str, log>>

\* delta_rev_head with a base_rev that is not in the history
DeltaRevHeadUnknown ==
    \E base_rev \in UnknownRevIds :
        /\ panic = NoPanic
        /\ delta_rev_head_call(engine, base_rev).panic # ""
        /\ Leaves(delta_rev_head_call(engine, base_rev).engine)
        /\ panic' = [msg |-> delta_rev_head_call(engine, base_rev).panic,
                     op |-> "delta_rev_head", base_rev |-> base_rev]
        /\ UNCHANGED <<union_str, log>>

\* the engine with calls that panic, after fewer than MaxOps calls that
\* return; a panic ends the run
NextPanics ==
    \/ panic = NoPanic /\ Len(log) < MaxOps - 1 /\ Next
    \/ EditRevUnknown
    \/ DeltaRevHeadUnknown

SpecPanics == Init /\ [][NextPanics]_vars

Spec == Init /\ [][Next]_vars

(***************************************************************************)
(* Calls of the Delta functions on their own.  calc holds the arguments    *)
(* and the results of the call made last; the engine is left alone.        *)
(***************************************************************************)
MaxBase == 3
MaxCalls == 2
MaxIns == 2
MaxXform == 2
MaxUnion == 4

\* the text a delta is applied to: n distinct characters
BaseRope(n) == [i \in 1 .. n |-> i]

\* the rope the k-th Builder call inserts: n characters of its own
InsertedRope(k, n) == [i \in 1 .. n |-> 10 * k + i]

\* a call of Builder::delete(iv), or of Builder::replace(iv, a rope of n characters)
BuilderCall == [replace : BOOLEAN, iv : Intervals(MaxBase), n : 0 .. MaxIns]

\* the calls a Builder over base_len accepts: intervals inside [0, base_len],
\* each starting at or after the end of the one before
BuilderCalls(base_len) ==
    { calls \in UNION { [1 .. k -> BuilderCall] : k \in 0 .. MaxCalls } :
        /\ \A k \in 1 .. Len(calls) :
              /\ calls[k].iv[2] <= base_len
              /\ ~calls[k].replace => calls[k].n = 0
        /\ \A k \in 2 .. Len(calls) : calls[k].iv[1] >= calls[k - 1].iv[2] }

RECURSIVE BuilderAfter(_, _, _)
BuilderAfter(bld, calls, k) ==
    IF k > Len(calls) THEN bld
    ELSE BuilderAfter(IF calls[k].replace
                      THEN Builder_replace(bld, calls[k].iv, InsertedRope(k, calls[k].n))
                      ELSE Builder_delete(bld, calls[k].iv),
                      calls, k + 1)

\* Builder::new(base_len), the calls in order, Builder::build()
BuildCalls(base_len, calls) == Builder_build(BuilderAfter(Builder_new(base_len), calls, 1))

\* the subsets of [0, l) of n positions
SubsetsOfSize(l, n) == { x \in SUBSET (0 .. (l - 1)) : Cardinality(x) = n }

\* the string of length l that xform deletes down to u
ExpandedBase(u, xform, l) ==
    [i \in 1 .. l |-> IF (i - 1) \in xform THEN 100 + i ELSE u[KeptBelow(xform, i - 1) + 1]]

\* the arguments of Delta::synthesize over a union string of length at most
\* MaxUnion: what from_dels deletes and to_dels keeps is among the tombstones
SynthesizeInputs ==
    { [op |-> "subsets", union_len |-> l, from_dels |-> f, to_dels |-> t, tombstone_dels |-> td] :
        l \in 0 .. MaxUnion, f \in SUBSET (0 .. (MaxUnion - 1)),
        t \in SUBSET (0 .. (MaxUnion - 1)), td \in SUBSET (0 .. (MaxUnion - 1)) }

ValidSynthesizeInputs ==
    { c \in SynthesizeInputs :
        /\ (c.from_dels \cup c.to_dels \cup c.tombstone_dels) \subseteq (0 .. (c.union_len - 1))
        /\ (c.from_dels \ c.to_dels) \subseteq c.tombstone_dels }

\* a base length and the calls made on a Builder over it
BuilderInputs ==
    UNION { { [op |-> "calls", base_len |-> n, calls |-> calls] : calls \in BuilderCalls(n) } :
            n \in 0 .. MaxBase }

\* Builder::new(base_len): no call made yet, no interval added
NewBuilders ==
    { [op |-> "builder", call |-> "new", bld |-> Builder_new(n), n |-> 0,
       arg |-> <<0, 0>>, before_end |-> 0, added_end |-> 0] : n \in 0 .. MaxBase }

InitDelta ==
    /\ rev_id_counter = Engine_new(initial_contents).rev_id_counter
    /\ text = Engine_new(initial_contents).text
    /\ tombstones = Engine_new(initial_contents).tombstones
    /\ revs = Engine_new(initial_contents).revs
    /\ union_str = initial_contents
    /\ log = <<>>
    /\ panic = NoPanic
    /\ ranges = IndexSet_new
    /\ index_calls = NoIndexCalls
    /\ calc \in BuilderInputs \cup ValidSynthesizeInputs \cup NewBuilders

Computes(c) ==
    /\ calc' = c
    /\ UNCHANGED <<rev_id_counter, text, tombstones, revs, union_str, log, panic,
                   ranges, index_calls>>

\* Builder::new, the delete and replace calls, Builder::build
DeltaBuild ==
    /\ calc.op = "calls"
    /\ Computes([op |-> "delta", calls |-> calc.calls,
                 d |-> BuildCalls(calc.base_len, calc.calls),
                 s |-> BaseRope(calc.base_len)])

\* d.apply(s)
DeltaApply ==
    /\ calc.op = "delta"
    /\ Computes([op |-> "apply", calls |-> calc.calls, d |-> calc.d, s |-> calc.s,
                 out |-> apply(calc.d, calc.s)])

\* Delta::simple_edit(iv, rope, base_len), and the delta applied
DeltaSimpleEdit ==
    /\ calc.op = "calls"
    /\ Len(calc.calls) = 1
    /\ LET iv == calc.calls[1].iv
           rope == InsertedRope(1, calc.calls[1].n)
           d == simple_edit(iv, rope, calc.base_len)
       IN  Computes([op |-> "simple_edit", iv |-> iv, rope |-> rope, d |-> d,
                     s |-> BaseRope(calc.base_len), out |-> apply(d, BaseRope(calc.base_len))])

\* d.factor()
DeltaFactor ==
    /\ calc.op = "delta"
    /\ Computes([op |-> "factor", d |-> calc.d, s |-> calc.s,
                 ins |-> factor(calc.d).ins, del |-> factor(calc.d).dels, u |-> calc.s])

\* ins.transform_expand(xform, l, after), for an InsertDelta returned by factor
DeltaTransformExpand ==
    /\ calc.op = "factor"
    /\ \E n \in 0 .. MaxXform, after \in BOOLEAN :
          \E xform \in SubsetsOfSize(calc.ins.base_len + n, n) :
             Computes([op |-> "transform_expand",
                       d |-> calc.ins, s |-> calc.u, xform |-> xform, after |-> after,
                       returns |-> transform_expand_returns(calc.ins, xform,
                                       calc.ins.base_len + n, after),
                       ins |-> InsertDelta_transform_expand(calc.ins, xform,
                                   calc.ins.base_len + n, after),
                       u |-> ExpandedBase(calc.u, xform, calc.ins.base_len + n)])

\* ins.transform_shrink(xform), for an InsertDelta returned by transform_expand
DeltaTransformShrink ==
    /\ calc.op = "transform_expand"
    /\ calc.returns
    /\ \E xform \in SUBSET (0 .. (calc.ins.base_len - 1)) :
          Computes([op |-> "transform_shrink",
                    d |-> calc.ins, s |-> calc.u, xform |-> xform,
                    ins |-> InsertDelta_transform_shrink(calc.ins, xform),
                    u |-> delete_from(xform, calc.u)])

\* ins.inserted_subset(), next to ins.apply(u)
DeltaInsertedSubset ==
    /\ calc.op \in {"factor", "transform_expand", "transform_shrink"}
    /\ calc.op = "transform_expand" => calc.returns
    /\ Computes([op |-> "inserted_subset", from |-> calc.op, ins |-> calc.ins, u |-> calc.u,
                 sb |-> inserted_subset(calc.ins), out |-> apply(calc.ins, calc.u)])

\* Delta::synthesize(tombstones, tombstone_dels, union_len, from_dels, to_dels)
DeltaSynthesize ==
    /\ calc.op = "subsets"
    /\ Computes([calc EXCEPT !.op = "synthesize"] @@
                [d |-> synthesize(delete_from(complement(calc.tombstone_dels, calc.union_len),
                                              BaseRope(calc.union_len)),
                                  calc.tombstone_dels, calc.union_len,
                                  calc.from_dels, calc.to_dels)])

\* the inverse of factor: d is synthesized again from the union string
\* u = ins.apply(s), whose tombstones are the inserted text
DeltaFactorSynthesize ==
    /\ calc.op = "factor"
    /\ LET ins == inserted_subset(calc.ins)
           del2 == Subset_transform_expand(calc.del, ins)
           r2 == apply(calc.ins, calc.s)
           tombs == delete_from(complement(ins, Len(r2)), r2)
       IN  Computes([op |-> "factor_synthesize", d |-> calc.d, s |-> calc.s,
                     d2 |-> synthesize(tombs, ins, Len(r2), ins, del2)])

\* d.summary(), for a delta built by a Builder or returned by synthesize
DeltaSummary ==
    \/ /\ calc.op = "delta"
       /\ Computes([op |-> "summary", d |-> calc.d, s |-> calc.s,
                    iv |-> summary(calc.d).iv, new_len |-> summary(calc.d).new_len])
    \/ /\ calc.op = "synthesize"
       /\ Computes([op |-> "summary", d |-> calc.d,
                    s |-> delete_from(calc.from_dels, BaseRope(calc.union_len)),
                    iv |-> summary(calc.d).iv, new_len |-> summary(calc.d).new_len])

\* the call bld.delete(iv) or bld.replace(iv, rope) on the builder in calc: it
\* panics on the assertion, leaving the builder as it was, or returns
BuilderCalled(call, iv, after) ==
    /\ panic = NoPanic
    /\ calc.n < MaxCalls
    /\ calc' = [calc EXCEPT !.call = call, !.arg = iv, !.n = calc.n + 1,
                            !.before_end = calc.added_end,
                            !.bld = IF Builder_sorted(calc.bld, iv) THEN after ELSE calc.bld,
                            !.added_end = IF Builder_sorted(calc.bld, iv) THEN iv[2]
                                          ELSE calc.added_end]
    /\ panic' = IF Builder_sorted(calc.bld, iv) THEN NoPanic
                ELSE [msg |-> "Delta builder: intervals not properly sorted",
                      op |-> call, base_rev |-> 0]
    /\ UNCHANGED <<rev_id_counter, text, tombstones, revs, union_str, log,
                   ranges, index_calls>>

DeltaBuilderDelete ==
    /\ calc.op = "builder"
    /\ \E iv \in Intervals(MaxBase) : BuilderCalled("delete", iv, Builder_delete(calc.bld, iv))

DeltaBuilderReplace ==
    /\ calc.op = "builder"
    /\ \E iv \in Intervals(MaxBase), n \in 0 .. MaxIns :
          BuilderCalled("replace", iv,
                        Builder_replace(calc.bld, iv, InsertedRope(calc.n + 1, n)))

\* Transformer::new(d).transform(ix, after), for a delta built by a Builder
\* or returned by synthesize, next to d.apply(s)
DeltaTransform ==
    /\ calc.op \in {"delta", "synthesize"}
    /\ \E s \in {IF calc.op = "delta" THEN calc.s
                  ELSE delete_from(calc.from_dels, BaseRope(calc.union_len))} :
          \E ix \in 0 .. calc.d.base_len, after \in BOOLEAN :
             Computes([op |-> "transform", d |-> calc.d, s |-> s, ix |-> ix,
                       after |-> after, result |-> transform(calc.d, ix, after),
                       out |-> apply(calc.d, s)])

NextDelta ==
    \/ DeltaBuild
    \/ DeltaApply
    \/ DeltaFactor
    \/ DeltaTransformExpand
    \/ DeltaTransformShrink
    \/ DeltaInsertedSubset
    \/ DeltaSynthesize
    \/ DeltaFactorSynthesize
    \/ DeltaSummary
    \/ DeltaSimpleEdit
    \/ DeltaBuilderDelete
    \/ DeltaBuilderReplace
    \/ DeltaTransform

SpecDelta == InitDelta /\ [][NextDelta]_vars

(***************************************************************************)
(* Calls on an IndexSet.                                                   *)
(***************************************************************************)
MaxIndex == 6

\* the call leaves the IndexSet with ranges r, and nothing else changes
IndexSetBecomes(r, call) ==
    /\ ranges' = r
    /\ index_calls' = call
    /\ UNCHANGED <<rev_id_counter, text, tombstones, revs, union_str, log, panic, calc>>

UnionOneRange ==
    \E start \in 0 .. MaxIndex, end \in 0 .. MaxIndex :
        /\ start < end
        /\ IndexSetBecomes(union_one_range(ranges, start, end),
                           [op |-> "union_one_range", start |-> start, end |-> end,
                            out |-> <<>>, before |-> ranges,
                            added |-> index_calls.added \cup (start .. (end - 1))])

Clear ==
    /\ index_calls.op # "new"
    /\ IndexSetBecomes(<<>>, [op |-> "clear", start |-> 0, end |-> 0, out |-> <<>>,
                              before |-> ranges, added |-> {}])

MinusOneRange ==
    \E start \in 0 .. MaxIndex, end \in 0 .. MaxIndex :
        /\ start <= end
        /\ IndexSetBecomes(ranges,
                           [op |-> "minus_one_range", start |-> start, end |-> end,
                            out |-> minus_one_range(ranges, start, end),
                            before |-> ranges, added |-> index_calls.added])

NextIndexSet ==
    \/ UnionOneRange
    \/ Clear
    \/ MinusOneRange

SpecIndexSet == Init /\ [][NextIndexSet]_vars

(***************************************************************************)
(* The history of calls (log) and what it determines                       *)
(***************************************************************************)
Last(s) == s[Len(s)]

\* the engine after one logged call
ApplyCall(e, c) ==
    IF c.op = "edit_rev"
    THEN edit_rev(e, c.priority, c.undo_group, c.base_rev, c.delta)
    ELSE IF c.op = "undo" THEN undo(e, c.groups)
    ELSE gc(e, c.groups)

\* the engine after the calls calls[i], calls[i+1], ... made on e
RECURSIVE ReplayFrom(_, _, _)
ReplayFrom(e, calls, i) ==
    IF i > Len(calls) THEN e ELSE ReplayFrom(ApplyCall(e, calls[i]), calls, i + 1)

\* a fresh engine with the same initial text that received the calls
Replay(calls) == ReplayFrom(Engine_new(initial_contents), calls, 1)

NoGc == \A i \in 1 .. Len(log) : log[i].op # "gc"

UndoCalls == { i \in 1 .. Len(log) : log[i].op = "undo" }

\* the groups passed to the most recent undo call
CurrentUndoSet ==
    IF UndoCalls = {} THEN {}
    ELSE log[CHOOSE i \in UndoCalls : \A j \in UndoCalls : j <= i].groups

\* the step is an edit_rev call
EditStep == log' # log /\ Last(log').op = "edit_rev"

\* the characters a delta inserts, and the base positions it copies
InsertedChars(delta) ==
    UNION { { delta.els[k].n[j] : j \in 1 .. Len(delta.els[k].n) } :
            k \in { k \in 1 .. Len(delta.els) : delta.els[k].t = "Insert" } }

CopiedPositions(delta) ==
    UNION { delta.els[k].b .. (delta.els[k].e - 1) :
            k \in { k \in 1 .. Len(delta.els) : delta.els[k].t = "Copy" } }

Chars(rope) == { rope[i] : i \in 1 .. Len(rope) }

IndexOf(rope, c) == CHOOSE i \in 1 .. Len(rope) : rope[i] = c

(***************************************************************************)
(* Concurrent editing: every edit is made against the initial revision,    *)
(* each with a priority of its own (engine.rs:169, "should never be =="),  *)
(* and the caller undoes before its first edit or after the last one.      *)
(***************************************************************************)
EditCalls == { i \in 1 .. Len(log) : log[i].op = "edit_rev" }

UsedPriorities == { log[i].priority : i \in EditCalls }

ConcurrentEdit ==
    \E priority \in (0 .. (MaxOps - 1)) \ UsedPriorities, undo_group \in Groups :
        \E delta \in Deltas(InitLen, NewChar(engine)) :
            /\ Cardinality(EditCalls) < MaxOps
            /\ UndoCalls \subseteq {1}
            /\ edit_rev_returns(engine, priority, 0, delta)
            /\ Becomes(edit_rev(engine, priority, undo_group, 0, delta))
            /\ union_str' = apply(union_ins_delta(engine, priority, 0, delta).ins, union_str)
            /\ log' = Append(log, LogEdit(priority, undo_group, 0, delta))

ConcurrentUndo ==
    \E groups \in SUBSET Groups :
        /\ UndoCalls = {}
        /\ Becomes(undo(engine, groups))
        /\ union_str' = union_str
        /\ log' = Append(log, LogUndo(groups))

NextConcurrent == ConcurrentEdit \/ ConcurrentUndo

SpecConcurrent == Init /\ [][NextConcurrent]_vars

(***************************************************************************)
(* Properties                                                              *)
(***************************************************************************)
HeadDeletes == Last(revs).deletes_from_union

\* C1: in every state reached by Engine::new, edit_rev, undo and gc the text
\* is the union string at the positions head.deletes_from_union keeps, in
\* union order, and tombstones is the union string at the positions it deletes.
C1_TextAndTombstonesSplitUnion ==
    /\ text = delete_from(HeadDeletes, union_str)
    /\ tombstones = delete_from(complement(HeadDeletes, Len(union_str)), union_str)

\* C2: in every state reached by edit_rev, undo and gc calls,
\* len(text) + len(tombstones) is the head's union_str_len and the number of
\* positions head.deletes_from_union deletes is len(tombstones).
C2_LengthsAgreeWithHead ==
    /\ Len(text) + Len(tombstones) = Last(revs).union_str_len
    /\ Cardinality(HeadDeletes) = Len(tombstones)

\* C3: an edit_rev(p, g, base_rev, d) call with base_rev = get_head_rev_id()
\* and g outside the current undo set leaves get_head() = d.apply(get_head()
\* before the call), for every priority p.
C3_EditAtHeadAppliesDelta ==
    [][ (/\ EditStep
         /\ Last(log').base_rev = get_head_rev_id(engine)
         /\ Last(log').undo_group \notin CurrentUndoSet)
        => text' = apply(Last(log').delta, text) ]_vars

\* an edit at the head, in a group that is not undone while another group is,
\* that both inserts and deletes, has just been applied
C3_Witness ==
    /\ Len(log) >= 2
    /\ Last(log).op = "edit_rev"
    /\ log[Len(log) - 1].op = "undo"
    /\ CurrentUndoSet # {}
    /\ Last(log).undo_group \notin CurrentUndoSet
    /\ Last(log).base_rev = revs[Len(revs) - 1].rev_id
    /\ InsertedChars(Last(log).delta) # {}
    /\ CopiedPositions(Last(log).delta) # 0 .. (Last(log).delta.base_len - 1)
    /\ text = apply(Last(log).delta,
                    get_head(Replay(SubSeq(log, 1, Len(log) - 1))))

\* the base position of element k of a delta: the end of the last Copy before it
BasePosition(delta, k) ==
    LET before == { j \in 1 .. (k - 1) : delta.els[j].t = "Copy" }
    IN  IF before = {} THEN 0
        ELSE delta.els[CHOOSE j \in before : \A i \in before : i <= j].e

\* <<base position, character>> for every character a delta inserts
InsertsAt(delta) ==
    UNION { { <<BasePosition(delta, k), delta.els[k].n[j]>> : j \in 1 .. Len(delta.els[k].n) } :
            k \in { k \in 1 .. Len(delta.els) : delta.els[k].t = "Insert" } }

\* pairs of edit_rev calls against the same base_rev with different priorities
ConcurrentPairs ==
    { ij \in (1 .. Len(log)) \X (1 .. Len(log)) :
        /\ log[ij[1]].op = "edit_rev"
        /\ log[ij[2]].op = "edit_rev"
        /\ log[ij[1]].base_rev = log[ij[2]].base_rev
        /\ log[ij[1]].priority < log[ij[2]].priority }

\* the characters the two edits of a pair insert at one base position and
\* that are both in the text: <<lower priority's, higher priority's>>
SamePositionInserts(ij) ==
    { cc \in Chars(text) \X Chars(text) :
        \E pos \in 0 .. log[ij[1]].delta.base_len :
            /\ <<pos, cc[1]>> \in InsertsAt(log[ij[1]].delta)
            /\ <<pos, cc[2]>> \in InsertsAt(log[ij[2]].delta) }

\* C4: when two edits against the same base_rev with different priorities
\* insert at the same base position, the text of the higher priority comes
\* after the text of the lower priority in get_head(), whichever call was first.
C4_HigherPriorityInsertsAfter ==
    \A ij \in ConcurrentPairs : \A cc \in SamePositionInserts(ij) :
        IndexOf(text, cc[1]) < IndexOf(text, cc[2])

\* the higher-priority edit was submitted first and its text still comes last
C4_Witness ==
    \E ij \in ConcurrentPairs :
        /\ ij[2] < ij[1]
        /\ SamePositionInserts(ij) # {}
        /\ \A cc \in SamePositionInserts(ij) : IndexOf(text, cc[1]) < IndexOf(text, cc[2])

\* the groups passed to any undo call of the history
EverUndone == UNION { log[i].groups : i \in UndoCalls }

\* the histories that make the edit_rev calls of log in another order
Reorderings ==
    { [i \in 1 .. Len(log) |-> log[f[i]]] :
        f \in { f \in [1 .. Len(log) -> 1 .. Len(log)] :
                  /\ \A i, j \in 1 .. Len(log) : f[i] = f[j] => i = j
                  /\ \A i \in UndoCalls : f[i] = i } }

\* the base characters no edit deletes, and every inserted character
Survivors ==
    { initial_contents[pos + 1] :
        pos \in { pos \in 0 .. (InitLen - 1) :
                    \A i \in EditCalls : pos \in CopiedPositions(log[i].delta) } }
    \cup UNION { InsertedChars(log[i].delta) : i \in EditCalls }

\* C5: for edits all made against the same base_rev, with pairwise distinct
\* priorities and undo groups that are not undone, get_head() is the same for
\* every order of submission; a base character survives iff no edit deletes
\* it, and every edit's inserted text is present.
C5_SubmissionOrderIrrelevant ==
    (\A i \in EditCalls : log[i].undo_group \notin EverUndone)
    => /\ \A calls \in Reorderings : get_head(Replay(calls)) = text
       /\ Chars(text) = Survivors

\* three edits, submitted from the highest priority down, two inserting at
\* one position and one deleting a base character, and the reverse
\* submission ends in the same text
C5_Witness ==
    /\ Len(log) = 3
    /\ EditCalls = 1 .. 3
    /\ log[1].priority > log[2].priority
    /\ log[2].priority > log[3].priority
    /\ \E pos \in 0 .. InitLen, i, j \in EditCalls :
           /\ i # j
           /\ \E c \in Chars(text) : <<pos, c>> \in InsertsAt(log[i].delta)
           /\ \E c \in Chars(text) : <<pos, c>> \in InsertsAt(log[j].delta)
    /\ Chars(initial_contents) \cap Chars(text) # Chars(initial_contents)
    /\ get_head(Replay(<<log[3], log[2], log[1]>>)) = text
    /\ Chars(text) = Survivors

\* the calls of the history before its last one
Earlier == SubSeq(log, 1, Len(log) - 1)

\* the calls of a history whose undo_group is outside groups
Outside(calls, groups) ==
    LET Keep(c) == c.undo_group \notin groups IN SelectSeq(calls, Keep)

\* C6: for an engine that received only edits against the initial revision
\* with distinct priorities, get_head() after undo(G) is the head of a fresh
\* engine with the same initial text that received, in the same order, only
\* the edits whose undo_group is not in G; undoing every group restores the
\* initial text.
C6_UndoIsReplayWithoutGroups ==
    (Len(log) >= 1 /\ UndoCalls = {Len(log)})
    => text = get_head(Replay(Outside(Earlier, Last(log).groups)))

\* three edits, then an undo of a group that holds some of them but not all:
\* the text changes, and to something other than the initial text
C6_Witness ==
    /\ Len(log) = 4
    /\ UndoCalls = {4}
    /\ Len(Outside(Earlier, Last(log).groups)) \in {1, 2}
    /\ text # get_head(Replay(Earlier))
    /\ text # initial_contents
    /\ text = get_head(Replay(Outside(Earlier, Last(log).groups)))

\* C7 (as stated): in every state reached by edit_rev, undo and gc, an
\* edit_rev call whose undo_group is in the groups passed to the most recent
\* undo call is born undone: get_head() is unchanged, the inserted
\* characters go to tombstones and the deletions are not applied.
C7_BornUndoneAfterLastUndoCall ==
    [][ (EditStep /\ Last(log').undo_group \in CurrentUndoSet)
        => /\ text' = text
           /\ InsertedChars(Last(log').delta) \subseteq Chars(tombstones') ]_vars

\* C7 (amended): the same for an edit_rev call whose undo_group is in the
\* groups of the last Undo revision that the history still holds.
C7_BornUndoneInCurrentUndo ==
    [][ (EditStep /\ Undone(revs, Last(log').undo_group))
        => /\ text' = text
           /\ InsertedChars(Last(log').delta) \subseteq Chars(tombstones') ]_vars

\* an undo, a gc, then an edit of a group that is still undone, inserting
\* and deleting: the text is as before the edit
C7_Witness ==
    /\ Len(log) = 3
    /\ log[1].op = "undo"
    /\ log[2].op = "gc"
    /\ Last(log).op = "edit_rev"
    /\ Undone(Replay(Earlier).revs, Last(log).undo_group)
    /\ InsertedChars(Last(log).delta) # {}
    /\ CopiedPositions(Last(log).delta) # 0 .. (Last(log).delta.base_len - 1)
    /\ text = get_head(Replay(Earlier))
    /\ InsertedChars(Last(log).delta) \subseteq Chars(tombstones)

\* the edit_rev calls of a history can be made, in this order, on engine e:
\* each base_rev is in the history, each delta has the length of its base
\* revision, and each call returns
RECURSIVE CanReplayFrom(_, _, _)
CanReplayFrom(e, calls, i) ==
    \/ i > Len(calls)
    \/ /\ calls[i].op = "edit_rev"
       /\ find_rev(e.revs, calls[i].base_rev) # 0
       /\ calls[i].delta.base_len = RevTextLen(e.revs[find_rev(e.revs, calls[i].base_rev)])
       /\ edit_rev_returns(e, calls[i].priority, calls[i].base_rev, calls[i].delta)
       /\ CanReplayFrom(ApplyCall(e, calls[i]), calls, i + 1)

\* C8 (as stated): for any undo set G and any sequence of edit_rev calls,
\* undo(G) on a fresh engine before the edits yields the same get_head() as
\* undo(G) after the same edits.
C8_UndoBeforeOrAfterAnyEdits ==
    (/\ Len(log) >= 2
     /\ UndoCalls = {1}
     /\ NoGc
     /\ CanReplayFrom(Engine_new(initial_contents), Tail(log), 1))
    => text = get_head(undo(Replay(Tail(log)), log[1].groups))

\* C8 (amended): the same for edit_rev calls that are all made against the
\* initial revision (base_rev 0).
C8_UndoBeforeOrAfterBaseEdits ==
    (/\ Len(log) >= 2
     /\ UndoCalls = {1}
     /\ NoGc
     /\ \A i \in EditCalls : log[i].base_rev = 0)
    => text = get_head(undo(Replay(Tail(log)), log[1].groups))

\* undo(G) first, then an edit born undone and an edit that is not, both
\* against the initial revision: the text is that of the edits then undo(G)
C8_Witness ==
    /\ Len(log) = 3
    /\ UndoCalls = {1}
    /\ NoGc
    /\ \A i \in EditCalls : log[i].base_rev = 0
    /\ \E i, j \in EditCalls :
           /\ log[i].undo_group \in log[1].groups
           /\ log[j].undo_group \notin log[1].groups
    /\ text # initial_contents
    /\ get_head(Replay(Tail(log))) # text
    /\ text = get_head(undo(Replay(Tail(log)), log[1].groups))

\* get_head() after undo({g}) followed by undo({}) is get_head() now
RedoRestoresHead ==
    \A g \in Groups : get_head(undo(undo(engine, {g}), {})) = text

SecondUndoKeepsHead(e, groups) == get_head(undo(e, groups)) = get_head(e)

\* C10: undo(G) twice in a row with the same G leaves get_head() after the
\* second call equal to get_head() after the first.
C10_UndoTwiceIsUndoOnce ==
    \A G \in SUBSET Groups : SecondUndoKeepsHead(undo(engine, G), G)

\* the history ends in two undo calls with the same groups, which undid an
\* edit, and the second left the text of the first
C10_Witness ==
    /\ Len(log) = 3
    /\ log[1].op = "edit_rev"
    /\ log[2].op = "undo"
    /\ log[3] = log[2]
    /\ log[1].undo_group \in log[2].groups
    /\ text = get_head(Replay(Earlier))
    /\ text # get_head(Replay(<<log[1]>>))

\* the step is an undo call
UndoCallStep == log' # log /\ Last(log').op = "undo"

\* the last call was an edit_rev in a group that was undone when it was made
LastEditBornUndone ==
    /\ Len(log) >= 1
    /\ Last(log).op = "edit_rev"
    /\ Last(revs).edit.t = "Edit"
    /\ Undone(revs, Last(revs).edit.undo_group)

\* C11: undo(G) replaces the undo set: after an undo(H) call, undo(G) gives
\* the head that undo(G) gave before it, for every H and G, and an edit that
\* was born undone is visible after an undo call that omits its group.
C11_UndoReplacesUndoSet ==
    [][ UndoCallStep
        => /\ \A G \in SUBSET Groups :
                  get_head(undo(engine', G)) = get_head(undo(engine, G))
           /\ (LastEditBornUndone /\ Last(log).undo_group \notin Last(log').groups)
              => InsertedChars(Last(log).delta) \subseteq Chars(text') ]_vars

\* undo of a group, an edit of that group that inserts and is born undone,
\* then an undo that omits the group: the inserted character is in the text
C11_Witness ==
    /\ Len(log) = 3
    /\ log[1].op = "undo"
    /\ log[2].op = "edit_rev"
    /\ log[3].op = "undo"
    /\ log[2].undo_group \in log[1].groups
    /\ log[2].undo_group \notin log[3].groups
    /\ log[3].groups # {}
    /\ InsertedChars(log[2].delta) # {}
    /\ InsertedChars(log[2].delta) \subseteq Chars(text)
    /\ get_head(Replay(Earlier)) = initial_contents

\* delta_rev_head(r) has the length of get_rev(r) as base_len and takes
\* get_rev(r) to get_head()
DeltaTakesRevToHead(e, r) ==
    /\ delta_rev_head(e, r).base_len = Len(get_rev(e, r).rope)
    /\ apply(delta_rev_head(e, r), get_rev(e, r).rope) = get_head(e)

HeadAfter(n) == get_head(Replay(SubSeq(log, 1, n)))

\* C13: in every state reached by edit_rev and undo calls, get_rev(r) is
\* the text get_head() returned right after revision r was appended, for
\* every revision r of the history; get_rev(0) is the initial text and
\* get_rev(get_head_rev_id()) is get_head().
C13_GetRevIsHeadWhenAppended ==
    NoGc => /\ \A n \in 0 .. (Len(log) - 1) :
                   /\ get_rev(engine, revs[n + 1].rev_id).some
                   /\ get_rev(engine, revs[n + 1].rev_id).rope = HeadAfter(n)
            /\ get_rev(engine, 0).rope = initial_contents
            /\ get_rev(engine, get_head_rev_id(engine)).rope = text

\* an edit, an undo of it and a later edit that inserts: the three older
\* revisions have their texts of the time, and the first edit's is not the
\* head's nor the initial text
C13_Witness ==
    /\ NoGc
    /\ Len(log) = 3
    /\ log[1].op = "edit_rev"
    /\ log[2].op = "undo"
    /\ log[1].undo_group \in log[2].groups
    /\ log[3].op = "edit_rev"
    /\ InsertedChars(log[3].delta) # {}
    /\ get_rev(engine, revs[2].rev_id).rope \notin {text, initial_contents}
    /\ get_rev(engine, revs[2].rev_id).rope = HeadAfter(1)
    /\ get_rev(engine, revs[3].rev_id).rope = HeadAfter(2)
    /\ text # HeadAfter(2)

\* the groups of the edits of e that are not undone at its head
LiveGroups(e) ==
    { e.revs[i].edit.undo_group :
        i \in { i \in 1 .. Len(e.revs) :
                  /\ e.revs[i].edit.t = "Edit"
                  /\ e.revs[i].edit.undo_group \notin get_current_undo(e.revs).groups } }

\* the characters the edits of the groups G inserted
GroupChars(G) ==
    UNION { InsertedChars(log[i].delta) :
              i \in { i \in EditCalls : log[i].undo_group \in G } }

\* the indices of the revisions gc(G) retains: the head, and the edits outside G
Retained(e, G) ==
    { i \in 1 .. Len(e.revs) :
        \/ i = Len(e.revs)
        \/ e.revs[i].edit.t = "Edit" /\ e.revs[i].edit.undo_group \notin G }

\* no group of G is reachable from the head: each is undone at the head, and
\* no revision that gc(G) retains has a character of G in its text
NotReachableFromHead(e, G) ==
    /\ G \cap LiveGroups(e) = {}
    /\ \A i \in Retained(e, G) :
           Chars(get_rev(e, e.revs[i].rev_id).rope) \cap GroupChars(G) = {}

\* g, the engine after a gc of e, has the head of e
HeadKept(e, g) ==
    /\ get_head(g) = get_head(e)
    /\ get_head_rev_id(g) = get_head_rev_id(e)

\* every revision of g is returned by get_rev with the content it had in e
RevsKept(e, g) ==
    \A i \in 1 .. Len(g.revs) :
        /\ get_rev(g, g.revs[i].rev_id).some
        /\ get_rev(g, g.revs[i].rev_id).rope = get_rev(e, g.revs[i].rev_id).rope

\* C14: for every state reached by edit_rev and undo calls and every set G
\* of groups none of which is reachable from the head, gc(G) leaves
\* get_head() and get_head_rev_id() unchanged and get_rev returns every
\* retained revision with the content it had before the gc.
C14_GcKeepsHeadAndRetainedRevisions ==
    NoGc => \A G \in SUBSET Groups :
                NotReachableFromHead(engine, G)
                => /\ HeadKept(engine, gc(engine, G))
                   /\ RevsKept(engine, gc(engine, G))

\* C15: edit_rev and delta_rev_head called with a base_rev that is not the
\* rev_id of a revision of the history panic with "base revision not found",
\* and the text, the tombstones, the revisions and rev_id_counter are left
\* as they were before the call.
C15_UnknownBaseRevPanics ==
    [][ /\ \A base_rev \in UnknownRevIds :
              /\ delta_rev_head_call(engine, base_rev).panic = "base revision not found"
              /\ \A priority \in Priorities, undo_group \in Groups :
                     \A delta \in Deltas(Len(text), NewChar(engine)) :
                         edit_rev_call(engine, priority, undo_group, base_rev,
                                       delta).panic = "base revision not found"
        /\ panic' # NoPanic
           => /\ panic'.msg = "base revision not found"
              /\ panic'.base_rev \notin RevIds
              /\ engine' = engine ]_vars

\* edit_rev has panicked on the rev_id of a revision that a gc dropped, in
\* an engine with an edit in its history, and left the engine of the calls
C15_Witness ==
    /\ panic.msg = "base revision not found"
    /\ panic.op = "edit_rev"
    /\ panic.base_rev < get_head_rev_id(engine)
    /\ panic.base_rev \notin RevIds
    /\ Len(log) = 2
    /\ EditCalls # {}
    /\ Last(log).op = "gc"
    /\ engine = Replay(log)

\* C16: get_rev(r) is None when no revision of the history has the id r, and
\* is_equivalent_revision(a, b) is false when a or b or both are not in the
\* history; both are queries on &self that return for every argument.
C16_MissingRevisionQueries ==
    \A r \in UnknownRevIds :
        /\ ~get_rev(engine, r).some
        /\ \A a \in 0 .. rev_id_counter :
               /\ ~is_equivalent_revision(engine, r, a)
               /\ ~is_equivalent_revision(engine, a, r)

\* a gc has dropped a revision: get_rev gives None for its id, and
\* is_equivalent_revision is false for it while it is true for two
\* revisions of the history
C16_Witness ==
    /\ \E r \in UnknownRevIds :
           /\ r < get_head_rev_id(engine)
           /\ ~get_rev(engine, r).some
           /\ ~is_equivalent_revision(engine, r, r)
    /\ \E a, b \in RevIds :
           /\ a # b
           /\ is_equivalent_revision(engine, a, b)
           /\ get_rev(engine, a).some

(***************************************************************************)
(* C20: for every Delta d and sequence s with len(s) = d.base_len, the     *)
(* length of d.apply(s) equals d.new_document_len().                       *)
(***************************************************************************)
C20_ApplyLengthIsNewDocumentLen ==
    /\ calc.op = "apply" =>
        /\ Len(calc.s) = calc.d.base_len
        /\ Len(calc.out) = new_document_len(calc.d)
    /\ calc.op = "inserted_subset" =>
        /\ Len(calc.u) = calc.ins.base_len
        /\ Len(calc.out) = new_document_len(calc.ins)
    /\ calc.op = "synthesize" =>
        Len(apply(calc.d, delete_from(calc.from_dels, BaseRope(calc.union_len))))
            = new_document_len(calc.d)

\* a delta that deletes, inserts and copies, leaving a text as long as its base
C20_Witness ==
    /\ calc.op = "apply"
    /\ calc.d.base_len = MaxBase
    /\ Len(calc.out) = MaxBase
    /\ calc.out # calc.s
    /\ \E i \in 1 .. Len(calc.d.els) : calc.d.els[i].t = "Insert" /\ Len(calc.d.els[i].n) = MaxIns
    /\ \E i \in 1 .. Len(calc.d.els) : calc.d.els[i].t = "Copy"

(***************************************************************************)
(* C18: for every well-formed Delta d and sequence s with len(s) =         *)
(* d.base_len, with (ins, del) = d.factor() and del2 =                     *)
(* del.transform_expand(ins.inserted_subset()): del2.delete_from(          *)
(* ins.apply(s)) equals d.apply(s), and del.delete_from(s) is s without    *)
(* the base ranges d does not copy.                                        *)
(***************************************************************************)
\* the characters of BaseRope(n) at the positions in kept, in order
BaseRopeAt(n, kept) == SelectSeq(BaseRope(n), LAMBDA c : (c - 1) \in kept)

C18_FactorSplitsInsertsFromDeletes ==
    calc.op = "factor" =>
        /\ delete_from(Subset_transform_expand(calc.del, inserted_subset(calc.ins)),
                       apply(calc.ins, calc.s))
             = apply(calc.d, calc.s)
        /\ delete_from(calc.del, calc.s) = BaseRopeAt(calc.d.base_len, CopiedPositions(calc.d))

\* a delta that copies, inserts and leaves out the end of its base
C18_Witness ==
    /\ calc.op = "factor"
    /\ calc.d.base_len = MaxBase
    /\ (MaxBase - 1) \in calc.del
    /\ 0 \notin calc.del
    /\ inserted_subset(calc.ins) # {}
    /\ apply(calc.d, calc.s) # calc.s

(***************************************************************************)
(* C19: for every InsertDelta ins (as produced by factor or                *)
(* transform_expand/transform_shrink) and sequence s with len(s) =         *)
(* ins.base_len, ins.inserted_subset().delete_from(ins.apply(s)) equals s. *)
(***************************************************************************)
C19_InsertedSubsetDeletesInserts ==
    calc.op = "inserted_subset" =>
        /\ Len(calc.u) = calc.ins.base_len
        /\ delete_from(calc.sb, calc.out) = calc.u

\* an InsertDelta returned by transform_shrink that inserts behind a copied character
C19_Witness ==
    /\ calc.op = "inserted_subset"
    /\ calc.from = "transform_shrink"
    /\ Len(calc.u) >= 2
    /\ Len(calc.out) > Len(calc.u)
    /\ 0 \notin calc.sb

OutsideUnchanged(s, new_s, iv) ==
    /\ Len(new_s) >= iv[1] + (Len(s) - iv[2])
    /\ SubSeq(new_s, 1, iv[1]) = SubSeq(s, 1, iv[1])
    /\ SubSeq(new_s, Len(new_s) - (Len(s) - iv[2]) + 1, Len(new_s)) = SubSeq(s, iv[2] + 1, Len(s))

SummaryConsistent(d, s, iv, new_len, new_s) ==
    /\ 0 <= iv[1] /\ iv[1] <= iv[2] /\ iv[2] <= d.base_len
    /\ OutsideUnchanged(s, new_s, iv)
    /\ iv[1] + new_len <= Len(new_s)
    /\ apply(simple_edit(iv, SubSeq(new_s, iv[1] + 1, iv[1] + new_len), Len(s)), s) = new_s

C21_SummaryIsConsistent ==
    calc.op = "summary" =>
        /\ Len(calc.s) = calc.d.base_len
        /\ SummaryConsistent(calc.d, calc.s, calc.iv, calc.new_len, apply(calc.d, calc.s))

\* a delta that keeps its first and last character and changes what is between
C21_Witness ==
    /\ calc.op = "summary"
    /\ calc.iv = <<1, MaxBase - 1>>
    /\ calc.new_len > 0
    /\ apply(calc.d, calc.s) # calc.s

(***************************************************************************)
(* C22: for a Builder over base_len given delete(iv) and replace(iv, seq)  *)
(* calls with sorted, non-overlapping intervals inside [0, base_len],      *)
(* build().apply(s) equals s with each given interval removed and, for     *)
(* replace, the given sequence put in its place; simple_edit(iv, r,        *)
(* base_len).apply(s) equals s[0..iv.start] + r + s[iv.end..].             *)
(***************************************************************************)
\* s from position pos on, with the intervals of the calls from k on removed
\* and the ropes of the replace calls put in their place
RECURSIVE Edited(_, _, _, _)
Edited(s, calls, k, pos) ==
    IF k > Len(calls) THEN SubSeq(s, pos + 1, Len(s))
    ELSE SubSeq(s, pos + 1, calls[k].iv[1])
         \o (IF calls[k].replace THEN InsertedRope(k, calls[k].n) ELSE <<>>)
         \o Edited(s, calls, k + 1, calls[k].iv[2])

C22_BuilderEditsTheIntervals ==
    /\ calc.op = "apply" => calc.out = Edited(calc.s, calc.calls, 1, 0)
    /\ calc.op = "simple_edit" =>
          calc.out = SubSeq(calc.s, 1, calc.iv[1]) \o calc.rope
                     \o SubSeq(calc.s, calc.iv[2] + 1, Len(calc.s))

\* a delete and then a replace, with a character kept before, between and behind
C22_Witness ==
    /\ calc.op = "apply"
    /\ Len(calc.calls) = 2
    /\ ~calc.calls[1].replace /\ calc.calls[1].iv = <<0, 1>>
    /\ calc.calls[2].replace /\ calc.calls[2].iv = <<2, 2>> /\ calc.calls[2].n = MaxIns
    /\ calc.out = <<2>> \o InsertedRope(2, MaxIns) \o <<3>>

(***************************************************************************)
(* C23: Builder::delete and Builder::replace panic when the interval's     *)
(* start is less than the end of the previously added interval (intervals  *)
(* not properly sorted), and do not panic when the start is greater than   *)
(* or equal to it.                                                         *)
(***************************************************************************)
C23_BuilderPanicsOnUnsortedIntervals ==
    (calc.op = "builder" /\ calc.call \in {"delete", "replace"}) =>
        /\ (panic # NoPanic) <=> (calc.arg[1] < calc.before_end)
        /\ panic # NoPanic => panic.op = calc.call

\* a second interval that starts inside the first makes replace panic
C23_Witness ==
    /\ calc.op = "builder"
    /\ calc.call = "replace"
    /\ calc.n = 2
    /\ calc.before_end = 2
    /\ calc.arg = <<1, 3>>
    /\ panic # NoPanic

(***************************************************************************)
(* C24: for any string U of length l, subset xform of [0, l), and          *)
(* InsertDelta d whose base_len equals xform.len_after_delete(l): d' =     *)
(* d.transform_expand(xform, l, after) is an insert-only delta with        *)
(* base_len l such that deleting the xform positions (shifted by d''s      *)
(* inserts) from d'.apply(U) equals d.apply(xform.delete_from(U)); where   *)
(* an insert of d falls at a point occupied by a run of xform positions,   *)
(* the inserted text is placed after that run when after is true and       *)
(* before it when after is false.                                          *)
(***************************************************************************)
\* the elements of d that are Copys, in order
CopysOf(d) == SelectSeq(d.els, LAMBDA el : el.t = "Copy")

\* the Copys of d cover [0, base_len) contiguously and in order
InsertOnly(d) ==
    LET c == CopysOf(d)
    IN  /\ \A k \in 1 .. Len(c) : c[k].b <= c[k].e
        /\ \A k \in 2 .. Len(c) : c[k].b = c[k - 1].e
        /\ IF Len(c) = 0 THEN d.base_len = 0
           ELSE c[1].b = 0 /\ c[Len(c)].e = d.base_len

\* the position in the base at which element k of an insert-only delta stands
RECURSIVE BaseOffset(_, _)
BaseOffset(els, k) ==
    IF k <= 1 THEN 0
    ELSE BaseOffset(els, k - 1)
         + (IF els[k - 1].t = "Copy" THEN els[k - 1].e - els[k - 1].b ELSE 0)

\* the Inserts of d in order, each with the position in the base it is put at
InsertsOf(d) ==
    LET ks == SelectSeq([k \in 1 .. Len(d.els) |-> k], LAMBDA k : d.els[k].t = "Insert")
    IN  [j \in 1 .. Len(ks) |-> [at |-> BaseOffset(d.els, ks[j]), n |-> d.els[ks[j]].n]]

\* where an insert at position p of the text stands in the union of length l:
\* behind the xform positions that lie at that point, or before them
ExpandedPoint(p, xform, l, after) ==
    IF after
    THEN IF p = len_after_delete(xform, l) THEN l ELSE NthKept(xform, p)
    ELSE IF p = 0 THEN 0 ELSE NthKept(xform, p - 1) + 1

ExpandedAsClaimed(d, s, xform, after, e, u) ==
    /\ InsertOnly(e)
    /\ e.base_len = Len(u)
    /\ delete_from(Subset_transform_expand(xform, inserted_subset(e)), apply(e, u))
         = apply(d, s)
    /\ InsertsOf(e) = [j \in 1 .. Len(InsertsOf(d)) |->
                          [at |-> ExpandedPoint(InsertsOf(d)[j].at, xform, Len(u), after),
                           n |-> InsertsOf(d)[j].n]]

C24_TransformExpandPlacesInserts ==
    calc.op = "transform_expand" =>
        /\ calc.d.base_len = len_after_delete(calc.xform, Len(calc.u))
        /\ delete_from(calc.xform, calc.u) = calc.s
        /\ calc.returns
        /\ ExpandedAsClaimed(calc.d, calc.s, calc.xform, calc.after, calc.ins, calc.u)

\* an insert between two characters, with a run of two xform positions between
\* them, put behind the run
C24_Witness ==
    /\ calc.op = "transform_expand"
    /\ calc.after
    /\ calc.xform = {1, 2}
    /\ Len(InsertsOf(calc.d)) = 1
    /\ InsertsOf(calc.d)[1].at = 1
    /\ Len(InsertsOf(calc.d)[1].n) > 0
    /\ InsertsOf(calc.ins)[1].at = 3
    /\ Len(calc.u) = MaxBase + 2

(***************************************************************************)
(* C25: for an InsertDelta d that applies to a union string U and a subset *)
(* xform of deletions from that union, d.transform_shrink(xform) has       *)
(* base_len xform.len_after_delete(d.base_len) and applies to the text     *)
(* xform.delete_from(U): its result equals d.apply(U) with the xform       *)
(* positions (shifted by d's inserts) deleted, each insert landing between *)
(* the same surviving neighbours.                                          *)
(***************************************************************************)
C25_TransformShrinkDeletesFromUnion ==
    calc.op = "transform_shrink" =>
        /\ Len(calc.s) = calc.d.base_len
        /\ calc.ins.base_len = len_after_delete(calc.xform, calc.d.base_len)
        /\ calc.u = delete_from(calc.xform, calc.s)
        /\ Len(calc.u) = calc.ins.base_len
        /\ apply(calc.ins, calc.u)
             = delete_from(Subset_transform_expand(calc.xform, inserted_subset(calc.d)),
                           apply(calc.d, calc.s))

\* an insert between two characters of the union, the one before it deleted
C25_Witness ==
    /\ calc.op = "transform_shrink"
    /\ Len(calc.s) = MaxBase + 1
    /\ calc.xform = {1}
    /\ Len(InsertsOf(calc.d)) = 1
    /\ InsertsOf(calc.d)[1].at = 2
    /\ Len(InsertsOf(calc.d)[1].n) = MaxIns
    /\ InsertsOf(calc.ins)[1].at = 1

(***************************************************************************)
(* C26: after any sequence of IndexSet::union_one_range(s, e) calls        *)
(* (s < e) and clear calls, the set covers exactly the union of the ranges *)
(* added since the last clear, and its stored ranges are sorted and        *)
(* separated by a gap of at least one index: a new range that overlaps or  *)
(* touches existing ranges is merged with all of them into one range.      *)
(***************************************************************************)
\* the indices the stored ranges cover
Covered(r) == UNION { r[k][1] .. (r[k][2] - 1) : k \in 1 .. Len(r) }

RangesOf(r) == { r[k] : k \in 1 .. Len(r) }

\* the range a overlaps or touches the range b
Touches(a, b) == a[1] <= b[2] /\ b[1] <= a[2]

SortedWithGaps(r) ==
    /\ \A k \in 1 .. Len(r) : r[k][1] < r[k][2]
    /\ \A k \in 1 .. (Len(r) - 1) : r[k][2] < r[k + 1][1]

\* the ranges after union_one_range(start, end): one range holds the new range
\* and every range it overlaps or touches, the other ranges are as before
MergedIntoOne(before, after, start, end) ==
    LET hit == { b \in RangesOf(before) : Touches(b, <<start, end>>) }
    IN  \E m \in RangesOf(after) :
           /\ m[1] <= start /\ end <= m[2]
           /\ \A b \in hit : m[1] <= b[1] /\ b[2] <= m[2]
           /\ RangesOf(after) = (RangesOf(before) \ hit) \cup {m}
           /\ Len(after) = Len(before) - Cardinality(hit) + 1

C26_IndexSetCoversWhatWasAdded ==
    /\ Covered(ranges) = index_calls.added
    /\ SortedWithGaps(ranges)
    /\ index_calls.op = "union_one_range" =>
          MergedIntoOne(index_calls.before, ranges, index_calls.start, index_calls.end)
    /\ index_calls.op = "clear" => ranges = <<>>

\* a range that touches the range before it and overlaps the one behind it
C26_Witness ==
    /\ index_calls.op = "union_one_range"
    /\ index_calls.before = <<<<0, 1>>, <<2, 4>>, <<5, 6>>>>
    /\ index_calls.start = 1 /\ index_calls.end = 3
    /\ ranges = <<<<0, 4>>, <<5, 6>>>>

(***************************************************************************)
(* C27: for every IndexSet reachable by union_one_range/clear and every    *)
(* b <= e, minus_one_range(b, e) yields, in increasing order, non-empty    *)
(* pairwise disjoint ranges whose union is exactly the indices of [b, e)   *)
(* not covered by the set; it yields nothing when b = e or [b, e) is fully *)
(* covered, and leaves the set unchanged.                                  *)
(***************************************************************************)
\* non-empty ranges, each beginning at or behind the end of the one before
IncreasingDisjoint(r) ==
    /\ \A k \in 1 .. Len(r) : r[k][1] < r[k][2]
    /\ \A k \in 1 .. (Len(r) - 1) : r[k][2] <= r[k + 1][1]

C27_MinusOneRangeYieldsTheUncovered ==
    index_calls.op = "minus_one_range" =>
        /\ IncreasingDisjoint(index_calls.out)
        /\ Covered(index_calls.out)
             = (index_calls.start .. (index_calls.end - 1)) \ Covered(index_calls.before)
        /\ (index_calls.start = index_calls.end
            \/ (index_calls.start .. (index_calls.end - 1)) \subseteq Covered(index_calls.before))
           => index_calls.out = <<>>
        /\ ranges = index_calls.before

\* a range that begins inside one stored range and runs over a second one
C27_Witness ==
    /\ index_calls.op = "minus_one_range"
    /\ ranges = <<<<0, 2>>, <<3, 4>>>>
    /\ index_calls.start = 1 /\ index_calls.end = MaxIndex
    /\ index_calls.out = <<<<2, 3>>, <<4, MaxIndex>>>>

(***************************************************************************)
(* C28: IndexSet::union_one_range merges only overlapping ranges: when the *)
(* set holds (a,b) and union_one_range(b,c) is called (or holds (b,c) and  *)
(* union_one_range(a,b) is called), the two exactly-adjacent ranges are    *)
(* not merged and remain two separate stored ranges.                       *)
(***************************************************************************)
\* the range b of the set ends where start..end begins, or begins where it ends
ExactlyAdjacent(b, start, end) == b[2] = start \/ end = b[1]

\* as stated: a stored range exactly adjacent to the new range stays a stored
\* range of its own
C28_AdjacentRangesStaySeparate ==
    index_calls.op = "union_one_range" =>
        \A b \in RangesOf(index_calls.before) :
            ExactlyAdjacent(b, index_calls.start, index_calls.end)
                => b \in RangesOf(ranges)

\* as the code has it: a stored range exactly adjacent to the new range is
\* merged with it into one stored range, and a stored range with a gap of at
\* least one index to the new range stays a stored range of its own
C28_AdjacentRangesAreMerged ==
    index_calls.op = "union_one_range" =>
        \A b \in RangesOf(index_calls.before) :
            /\ ExactlyAdjacent(b, index_calls.start, index_calls.end)
                 => /\ b \notin RangesOf(ranges)
                    /\ \E m \in RangesOf(ranges) :
                          /\ m[1] <= Min(b[1], index_calls.start)
                          /\ m[2] >= Max(b[2], index_calls.end)
            /\ (b[2] < index_calls.start \/ index_calls.end < b[1])
                 => b \in RangesOf(ranges)

\* the set holds (1, 2) and union_one_range(2, 3) is called: it holds (1, 3)
C28_Witness ==
    /\ index_calls.op = "union_one_range"
    /\ index_calls.before = <<<<1, 2>>, <<4, 5>>>>
    /\ index_calls.start = 2 /\ index_calls.end = 3
    /\ ranges = <<<<1, 3>>, <<4, 5>>>>

(***************************************************************************)
(* C29: after any sequence of edit_rev and undo calls (no gc), the         *)
(* deletes_from_union that edit_rev maintains incrementally at the head    *)
(* equals the one compute_undo would recompute from scratch for the        *)
(* current undo set; equivalently, calling undo with the currently active  *)
(* undo set leaves get_head() and tombstones unchanged even when edits     *)
(* were submitted since the last undo.                                     *)
(***************************************************************************)
\* undo(groups) recomputes what the head of e has, and changes neither text nor tombstones
UndoRecomputesHead(e, groups) ==
    /\ compute_undo(e, groups).deletes_from_union = head_rev(e).deletes_from_union
    /\ get_head(undo(e, groups)) = get_head(e)
    /\ undo(e, groups).tombstones = e.tombstones

C29_HeadDeletesAreThoseOfComputeUndo ==
    NoGc => UndoRecomputesHead(engine, CurrentUndoSet)

\* an undo of group 0, then an edit in group 0 and one in group 1 that deletes
C29_Witness ==
    /\ Len(log) = 3
    /\ log[1].op = "undo" /\ log[1].groups = {0}
    /\ log[2].op = "edit_rev" /\ log[2].undo_group = 0
    /\ log[3].op = "edit_rev" /\ log[3].undo_group = 1
    /\ tombstones # <<>>
    /\ Len(text) < Len(union_str) - 1

(***************************************************************************)
(* C30: gc does not change later undo/redo of groups it did not collect:   *)
(* for an engine whose current undo set is U, any G that does not contain  *)
(* the head edit's group and any U' disjoint from G, gc(G) followed by     *)
(* undo(U') yields the same get_head() as undo(U' + (U * G)) on the same   *)
(* engine without the gc.                                                  *)
(***************************************************************************)
\* G does not hold the group of the edit at the head of e
HeadGroupOutside(e, G) ==
    head_rev(e).edit.t = "Edit" => head_rev(e).edit.undo_group \notin G

\* undo(U2) after gc(G) gives the head undo gives without the gc, the
\* collected groups that were undone staying undone
UndoAfterGcAsWithout(e, G, U2) ==
    get_head(undo(gc(e, G), U2))
        = get_head(undo(e, U2 \cup (get_current_undo(e.revs).groups \cap G)))

C30_GcKeepsLaterUndo ==
    NoGc => \A G \in SUBSET Groups, U2 \in SUBSET Groups :
                (HeadGroupOutside(engine, G) /\ U2 \cap G = {})
                => UndoAfterGcAsWithout(engine, G, U2)

(***************************************************************************)
(* C31: after gc(G) the history consists, in the original chronological    *)
(* order and with unchanged rev_id, priority and undo_group, of exactly    *)
(* every Edit revision whose undo_group is not in G plus the former head   *)
(* revision; every Undo revision other than the head is dropped, and a     *)
(* retained Undo head's groups is its former groups minus G.               *)
(***************************************************************************)
\* the step is a gc call
GcStep == log' # log /\ Last(log').op = "gc"

\* rev stays in the history when G is collected and head is the head's rev_id
KeptByGc(rev, head, G) ==
    \/ rev.rev_id = head
    \/ rev.edit.t = "Edit" /\ rev.edit.undo_group \notin G

\* the indices in old of the revisions that stay, in increasing order
KeptIndices(old, G) ==
    SelectSeq([i \in 1 .. Len(old) |-> i],
              LAMBDA i : KeptByGc(old[i], old[Len(old)].rev_id, G))

\* new is rev as gc(G) keeps it
SameRevision(rev, new, G) ==
    /\ new.rev_id = rev.rev_id
    /\ new.edit.t = rev.edit.t
    /\ rev.edit.t = "Edit" => /\ new.edit.priority = rev.edit.priority
                              /\ new.edit.undo_group = rev.edit.undo_group
    /\ rev.edit.t = "Undo" => new.edit.groups = rev.edit.groups \ G

GcHistory(old, new, G) ==
    /\ Len(new) = Len(KeptIndices(old, G))
    /\ \A k \in 1 .. Len(new) : SameRevision(old[KeptIndices(old, G)[k]], new[k], G)

C31_GcKeepsOtherEditsAndHead ==
    [][ GcStep => GcHistory(revs, revs', Last(log').groups) ]_vars

\* an edit, an undo of every group, gc of the edit's group: the initial
\* revision and the edit are dropped, the Undo head stays with the collected
\* group taken out
C31_Witness ==
    /\ Len(log) = 3
    /\ log[1].op = "edit_rev"
    /\ log[2].op = "undo" /\ log[2].groups = Groups
    /\ log[3].op = "gc" /\ log[3].groups = {log[1].undo_group}
    /\ Len(revs) = 1
    /\ revs[1].rev_id = 2
    /\ revs[1].edit.t = "Undo" /\ revs[1].edit.groups = Groups \ {log[1].undo_group}

(***************************************************************************)
(* C32: each edit_rev and each undo call appends exactly one revision,     *)
(* whose rev_id is the previous get_head_rev_id() + 1, and leaves all      *)
(* earlier revisions unchanged; gc leaves get_head_rev_id() and            *)
(* rev_id_counter unchanged.  Hence in every reachable state the history   *)
(* is non-empty, rev_ids are strictly increasing along it, and             *)
(* get_head_rev_id() = rev_id_counter - 1.                                 *)
(***************************************************************************)
AppendsOneRevision ==
    /\ Len(revs') = Len(revs) + 1
    /\ SubSeq(revs', 1, Len(revs)) = revs
    /\ Last(revs').rev_id = get_head_rev_id(engine) + 1
    /\ (Last(revs').edit.t = "Edit") = EditStep

GcKeepsHeadRevId ==
    /\ get_head_rev_id(engine') = get_head_rev_id(engine)
    /\ rev_id_counter' = rev_id_counter

RevIdsIncrease ==
    /\ revs # <<>>
    /\ \A i, j \in 1 .. Len(revs) : i < j => revs[i].rev_id < revs[j].rev_id
    /\ get_head_rev_id(engine) = rev_id_counter - 1

C32_RevisionsAreAppendedInOrder ==
    /\ []RevIdsIncrease
    /\ [][ /\ (EditStep \/ UndoCallStep) => AppendsOneRevision
           /\ GcStep => GcKeepsHeadRevId ]_vars

\* an edit and an undo, each appended with the next rev_id, then a gc that
\* drops the edit and the initial revision and keeps the head's rev_id
C32_Witness ==
    /\ Len(log) = 3
    /\ log[1].op = "edit_rev" /\ log[2].op = "undo" /\ log[3].op = "gc"
    /\ log[1].undo_group \in log[3].groups
    /\ Len(revs) = 1
    /\ get_head_rev_id(engine) = 2
    /\ rev_id_counter = 3
    /\ get_head_rev_id(Replay(SubSeq(log, 1, 1))) = 1

(***************************************************************************)
(* C33: in every state reachable by Engine::new, edit_rev, undo and gc,    *)
(* the history begins with the sentinel initial revision (rev_id 0, empty  *)
(* deletes_from_union, Undo with empty groups), so get_rev(0) is present.  *)
(***************************************************************************)
SentinelFirst ==
    /\ revs # <<>>
    /\ revs[1].rev_id = 0
    /\ revs[1].deletes_from_union = Subset_default
    /\ revs[1].edit = Undo({})

C33_HistoryBeginsWithSentinel ==
    SentinelFirst /\ get_rev(engine, 0).some

\* some gc call was made when the history held more than the initial revision
GcAfterOtherCalls ==
    \E i, j \in 1 .. Len(log) : j < i /\ log[i].op = "gc" /\ log[j].op # "gc"

\* C33 as the code has it: the history begins with the sentinel initial
\* revision, and get_rev(0) is present, until the first gc call that is made
\* after an edit_rev or undo call; that gc drops the sentinel, and from then
\* on the first revision has a rev_id above 0 and get_rev(0) is absent.
C33_SentinelUntilGcOfHistory ==
    IF GcAfterOtherCalls
    THEN revs # <<>> /\ revs[1].rev_id > 0 /\ ~get_rev(engine, 0).some
    ELSE SentinelFirst /\ get_rev(engine, 0).some

\* an edit, then a gc that collects no group: the edit is the only revision
\* left, and a later edit builds on it
C33_Witness ==
    /\ Len(log) = 3
    /\ log[1].op = "edit_rev" /\ log[2].op = "gc" /\ log[3].op = "edit_rev"
    /\ log[2].groups = {}
    /\ Len(revs) = 2
    /\ revs[1].rev_id = 1
    /\ ~get_rev(engine, 0).some

(***************************************************************************)
(* C34: when an edit is rebased through an earlier-submitted concurrent    *)
(* edit of equal priority that inserted at the same position, after is     *)
(* true: the later-submitted edit's inserted text is placed after the      *)
(* earlier-submitted edit's inserted text in get_head().                   *)
(***************************************************************************)
\* pairs <<earlier call, later call>> of edit_rev calls against the same
\* base_rev with the same priority
EqualPriorityPairs ==
    { ij \in (1 .. Len(log)) \X (1 .. Len(log)) :
        /\ ij[1] < ij[2]
        /\ log[ij[1]].op = "edit_rev"
        /\ log[ij[2]].op = "edit_rev"
        /\ log[ij[1]].base_rev = log[ij[2]].base_rev
        /\ log[ij[1]].priority = log[ij[2]].priority }

C34_EqualPriorityInsertsAfterEarlier ==
    \A ij \in EqualPriorityPairs : \A cc \in SamePositionInserts(ij) :
        IndexOf(text, cc[1]) < IndexOf(text, cc[2])

\* two edits of one priority insert at the same place of the initial text,
\* inside it, and both characters are in the text, the later call's right
\* after the earlier call's
C34_Witness ==
    \E ij \in EqualPriorityPairs : \E cc \in SamePositionInserts(ij) :
        /\ log[ij[1]].base_rev = 0
        /\ <<1, cc[1]>> \in InsertsAt(log[ij[1]].delta)
        /\ IndexOf(text, cc[2]) = IndexOf(text, cc[1]) + 1

(***************************************************************************)
(* C35: is_equivalent_revision(a, b) returns true exactly when both        *)
(* revisions exist and their deletes_from_union, lifted to the head union  *)
(* by marking every later edit's inserts as deleted, are equal; it is      *)
(* reflexive and symmetric on existing revisions, and whenever it returns  *)
(* true get_rev(a) equals get_rev(b).                                      *)
(***************************************************************************)
\* get_head() of e and after each of the calls calls[i], calls[i+1], ... made on e
RECURSIVE HeadsFrom(_, _, _)
HeadsFrom(e, calls, i) ==
    IF i > Len(calls) THEN <<get_head(e)>>
    ELSE <<get_head(e)>> \o HeadsFrom(ApplyCall(e, calls[i]), calls, i + 1)

\* the positions of the head union whose characters are not in the text
\* head: for the text of a revision, what the revision had deleted and what
\* was inserted after it
LiftedToHead(head) ==
    (0 .. (Len(union_str) - 1)) \ { IndexOf(union_str, c) - 1 : c \in Chars(head) }

\* the pairs of rev_ids up to the counter that is_equivalent_revision accepts
EquivalentPairs ==
    UNION { IF is_equivalent_revision(engine, ab[1], ab[2]) THEN {ab} ELSE {} :
            ab \in (0 .. rev_id_counter) \X (0 .. rev_id_counter) }

\* <<rev_id, get_rev>> for every revision of the history
RevisionTexts == { <<a, get_rev(engine, a)>> : a \in RevIds }

\* <<rev_id, the deletes the code lifts to the head, the text of the time
\* lifted to the head union>> for every revision n of a history without gc,
\* heads[n + 1] being the text after n calls
LiftedDeletes(heads) ==
    { <<n, subset_of_rev(engine, n).dels, LiftedToHead(heads[n + 1])>> : n \in RevIds }

EquivalenceRelationOf(eq, texts) ==
    /\ \A ab \in eq : <<ab[2], ab[1]>> \in eq /\ ab[1] \in RevIds
    /\ \A a \in RevIds : <<a, a>> \in eq
    /\ \A ta, tb \in texts : <<ta[1], tb[1]>> \in eq => ta[2] = tb[2]

EquivalentWhenLiftedEqual(eq, lifted) ==
    \A la, lb \in lifted :
        /\ la[2] = la[3]
        /\ (<<la[1], lb[1]>> \in eq) = (la[3] = lb[3])

C35_EquivalentRevisionsLiftToSameDeletes ==
    \A eq \in {EquivalentPairs} :
        /\ \A texts \in {RevisionTexts} : EquivalenceRelationOf(eq, texts)
        /\ NoGc => \A heads \in {HeadsFrom(Engine_new(initial_contents), log, 1)} :
                       \A lifted \in {LiftedDeletes(heads)} :
                           EquivalentWhenLiftedEqual(eq, lifted)

\* an edit, an undo of it and a later edit that inserts: the initial
\* revision and the undo are equivalent, their lifted deletes hold the
\* characters of both edits, and the first edit is equivalent to neither
C35_Witness ==
    /\ NoGc
    /\ Len(log) = 3
    /\ log[1].op = "edit_rev" /\ log[2].op = "undo" /\ log[3].op = "edit_rev"
    /\ InsertedChars(log[1].delta) # {}
    /\ InsertedChars(log[3].delta) # {}
    /\ is_equivalent_revision(engine, 0, 2)
    /\ ~is_equivalent_revision(engine, 1, 2)
    /\ ~is_equivalent_revision(engine, 0, 3)
    /\ Cardinality(LiftedToHead(HeadAfter(0))) = 2
    /\ get_rev(engine, 0).rope = initial_contents
    /\ get_rev(engine, 2).rope = initial_contents

(***************************************************************************)
(* C36: every Delta produced by Builder::build (from sorted intervals      *)
(* inside [0, base_len]), Delta::factor and Delta::synthesize has Copy     *)
(* ranges with 0 <= b <= e <= base_len in increasing order (each Copy      *)
(* starts at or after the end of the previous Copy), synthesize never      *)
(* emits two consecutive Copys that touch, and the InsertDelta returned by *)
(* factor and by InsertDelta::transform_expand has Copys that cover        *)
(* [0, base_len) contiguously in order.                                    *)
(***************************************************************************)
CopysInOrder(d) ==
    LET c == CopysOf(d)
    IN  /\ \A k \in 1 .. Len(c) : 0 <= c[k].b /\ c[k].b <= c[k].e /\ c[k].e <= d.base_len
        /\ \A k \in 2 .. Len(c) : c[k].b >= c[k - 1].e

NoTouchingCopys(d) ==
    \A k \in 1 .. (Len(d.els) - 1) :
        ~(/\ d.els[k].t = "Copy"
          /\ d.els[k + 1].t = "Copy"
          /\ d.els[k].e = d.els[k + 1].b)

C36_DeltasAreWellFormed ==
    /\ calc.op \in {"delta", "simple_edit"} => CopysInOrder(calc.d)
    /\ calc.op = "factor" => CopysInOrder(calc.ins) /\ InsertOnly(calc.ins)
    /\ calc.op = "synthesize" => CopysInOrder(calc.d) /\ NoTouchingCopys(calc.d)
    /\ calc.op = "factor_synthesize" => CopysInOrder(calc.d2) /\ NoTouchingCopys(calc.d2)
    /\ (calc.op = "transform_expand" /\ calc.returns)
       => CopysInOrder(calc.ins) /\ InsertOnly(calc.ins)

\* synthesize over a union of three characters of which the middle one is
\* deleted before and after: the two ranges of the new text are adjacent in
\* the old text, and the delta is the one Copy of both
C36_Witness ==
    /\ calc.op = "synthesize"
    /\ calc.union_len = 3
    /\ calc.from_dels = {1}
    /\ calc.to_dels = {1}
    /\ calc.d = [els |-> <<Copy(0, 2)>>, base_len |-> 2]

(***************************************************************************)
(* C37: for every well-formed Delta d and 0 <= ix <= d.base_len,           *)
(* Transformer::transform(ix, after) is non-decreasing in ix, satisfies    *)
(* transform(ix, false) <= transform(ix, true) <= d.new_document_len(),    *)
(* returns 0 for transform(0, false), and for ix strictly inside a Copy    *)
(* range returns the index in the new document of the copied base position *)
(* ix (d.apply(s)[transform(ix, after)] = s[ix]).                          *)
(***************************************************************************)
\* ix is strictly inside a Copy range of d
StrictlyInsideCopy(d, ix) ==
    \E k \in 1 .. Len(d.els) :
        d.els[k].t = "Copy" /\ d.els[k].b < ix /\ ix < d.els[k].e

C37_TransformMapsCopiedPositions ==
    calc.op = "transform"
    => /\ calc.ix < calc.d.base_len
          => calc.result <= transform(calc.d, calc.ix + 1, calc.after)
       /\ transform(calc.d, calc.ix, FALSE) <= transform(calc.d, calc.ix, TRUE)
       /\ calc.result <= new_document_len(calc.d)
       /\ (calc.ix = 0 /\ ~calc.after) => calc.result = 0
       /\ StrictlyInsideCopy(calc.d, calc.ix)
          => /\ calc.result < Len(calc.out)
             /\ calc.out[calc.result + 1] = calc.s[calc.ix + 1]

\* a position strictly inside a Copy of a delta that begins with a Copy and
\* inserts: it moves, and to where its character is in the new document
C37_Witness ==
    /\ calc.op = "transform"
    /\ StrictlyInsideCopy(calc.d, calc.ix)
    /\ \E k \in 1 .. Len(calc.d.els) : calc.d.els[k].t = "Insert"
    /\ calc.d.els[1].t = "Copy"
    /\ calc.result # calc.ix
    /\ calc.out[calc.result + 1] = calc.s[calc.ix + 1]

====
